---- MODULE Spec2Model ----
(***************************************************************************)
(* Pose landmark processing pipeline of the Yoga-App repository            *)
(* (src/src/utils/poseProcessing.ts and its caller PoseCamera.tsx):        *)
(* the LandmarkSmoother and its module-level singleton, the joint angle    *)
(* calculator, the confidence and visibility verdicts, the pose comparator *)
(* and feedback, and the frame packaging of the camera component.          *)
(*                                                                         *)
(* JavaScript numbers are modelled as exact extended rationals <<n, d>>:   *)
(* d > 0 is the fraction n/d in lowest terms, <<1,0>> and <<-1,0>> are     *)
(* +Infinity and -Infinity, <<0,0>> is NaN.  Rounding error of IEEE        *)
(* doubles is not modelled.  The value undefined is the empty tuple.       *)
(***************************************************************************)
EXTENDS Integers, Sequences, FiniteSets, TLC

VARIABLES
    smootherInstance,   \* poseProcessing.ts:222  the singleton, or Null
    currentAlpha,       \* poseProcessing.ts:223  factor the singleton was asked with
    call,               \* the most recent operation: its arguments and its result
    prevOp,             \* summary of the operation before the most recent one
    nCalls,             \* number of operations performed so far
    fed,                \* per session: the frames it has fed, oldest first
    got                 \* per session: the outputs it received, oldest first

vars == <<smootherInstance, currentAlpha, call, prevOp, nCalls, fed, got>>

-----------------------------------------------------------------------------
(* JavaScript numbers                                                      *)

IAbs(i) == IF i < 0 THEN -i ELSE i

ISign(i) == IF i > 0 THEN 1 ELSE IF i < 0 THEN -1 ELSE 0

RECURSIVE GCD(_, _)
GCD(a, b) == IF b = 0 THEN a ELSE GCD(b, a % b)

NaN == <<0, 0>>

PosInf == <<1, 0>>

NegInf == <<-1, 0>>

UNDEF == <<>>

\* the finite number n/d (d # 0), in lowest terms with a positive denominator
Q(n, d) ==
    LET s == IF d < 0 THEN -1 ELSE 1
        g == GCD(IAbs(n), IAbs(d))
    IN  <<(s * n) \div g, (s * d) \div g>>

Num(i) == <<i, 1>>

Zero == Num(0)

One == Num(1)

IsNaN(a) == a = NaN

IsInf(a) == a[2] = 0 /\ a[1] # 0

IsFinite(a) == a[2] # 0

Inf(sign) == IF sign < 0 THEN NegInf ELSE PosInf

\* -a
Neg(a) == <<-a[1], a[2]>>

\* a + b
Add(a, b) ==
    IF IsNaN(a) \/ IsNaN(b) THEN NaN
    ELSE IF IsInf(a) THEN (IF IsInf(b) /\ b # a THEN NaN ELSE a)
    ELSE IF IsInf(b) THEN b
    ELSE LET g == GCD(a[2], b[2])
         IN  Q(a[1] * (b[2] \div g) + b[1] * (a[2] \div g), (a[2] \div g) * b[2])

\* a - b
Sub(a, b) == Add(a, Neg(b))

\* a * b
Mul(a, b) ==
    IF IsNaN(a) \/ IsNaN(b) THEN NaN
    ELSE IF IsInf(a) \/ IsInf(b)
         THEN (IF a[1] = 0 \/ b[1] = 0 THEN NaN ELSE Inf(ISign(a[1]) * ISign(b[1])))
    ELSE Q(a[1] * b[1], a[2] * b[2])

\* a / b  (a finite nonzero number over zero is an infinity, 0/0 is NaN)
Div(a, b) ==
    IF IsNaN(a) \/ IsNaN(b) THEN NaN
    ELSE IF IsInf(b) THEN (IF IsInf(a) THEN NaN ELSE Zero)
    ELSE IF b[1] = 0 THEN (IF a[1] = 0 THEN NaN ELSE Inf(ISign(a[1])))
    ELSE IF IsInf(a) THEN Inf(ISign(a[1]) * ISign(b[1]))
    ELSE Q(a[1] * b[2], a[2] * b[1])

\* a < b, false when either is NaN
Lt(a, b) ==
    IF IsNaN(a) \/ IsNaN(b) THEN FALSE
    ELSE IF IsInf(a) THEN a = NegInf /\ b # NegInf
    ELSE IF IsInf(b) THEN b = PosInf
    ELSE a[1] * b[2] < b[1] * a[2]

\* a <= b, false when either is NaN
Le(a, b) == ~IsNaN(a) /\ ~IsNaN(b) /\ (a = b \/ Lt(a, b))

\* a > b
Gt(a, b) == Lt(b, a)

\* a >= b
Ge(a, b) == Le(b, a)

\* Math.max(a, b)
MathMax(a, b) == IF IsNaN(a) \/ IsNaN(b) THEN NaN ELSE IF Lt(a, b) THEN b ELSE a

\* Math.min(a, b)
MathMin(a, b) == IF IsNaN(a) \/ IsNaN(b) THEN NaN ELSE IF Lt(b, a) THEN b ELSE a

\* Math.abs(a)
MathAbs(a) == <<IAbs(a[1]), a[2]>>

\* Math.round(a): the nearest integer, a tie going to the larger one
MathRound(a) ==
    IF ~IsFinite(a) THEN a
    ELSE Num((2 * a[1] + a[2]) \div (2 * a[2]))

-----------------------------------------------------------------------------
(* LandmarkSmoother                                                        *)

Null == [kind |-> "null"]

EmptyMap == [k \in {} |-> UNDEF]

\* Map.get
MapGet(m, k) == IF k \in DOMAIN m THEN m[k] ELSE UNDEF

\* Map.set
MapSet(m, k, v) == [j \in DOMAIN m \cup {k} |-> IF j = k THEN v ELSE m[j]]

\* the constructor keeping the factor it is given
NewLandmarkSmootherUnclamped(alpha) ==
    [kind             |-> "LandmarkSmoother",
     alpha            |-> alpha,
     previousLandmarks |-> EmptyMap]

\* new LandmarkSmoother(alpha)
NewLandmarkSmoother(alpha) ==
    [kind             |-> "LandmarkSmoother",
     alpha            |-> MathMax(Zero, MathMin(One, alpha)),
     previousLandmarks |-> EmptyMap]

\* Ema with the factor read as the weight of the history
EmaSwapped(alpha, cur, prev) == Add(Mul(Sub(One, alpha), cur), Mul(alpha, prev))

\* Ema that returns the raw value at factor 1 without the multiplication
EmaRawAtOne(alpha, cur, prev) ==
    IF alpha = One THEN cur ELSE Add(Mul(alpha, cur), Mul(Sub(One, alpha), prev))

\* alpha * current + (1 - alpha) * previous
Ema(alpha, cur, prev) == Add(Mul(alpha, cur), Mul(Sub(One, alpha), prev))

\* SmoothLandmark with a missing history taken as the origin
SmoothLandmarkFromZero(alpha, previous, current) ==
    LET p == IF previous = UNDEF
             THEN [current EXCEPT !.x = Zero, !.y = Zero, !.z = Zero]
             ELSE previous
    IN  [current EXCEPT
            !.x = Ema(alpha, current.x, p.x),
            !.y = Ema(alpha, current.y, p.y),
            !.z = IF current.z # UNDEF /\ p.z # UNDEF
                  THEN Ema(alpha, current.z, p.z)
                  ELSE current.z]

\* SmoothLandmark that keeps emitting the stored position
SmoothLandmarkFrozen(alpha, previous, current) ==
    IF previous = UNDEF
    THEN current
    ELSE [current EXCEPT !.x = previous.x, !.y = previous.y, !.z = previous.z]

\* SmoothLandmark that spreads the stored landmark instead of the current one
SmoothLandmarkFromStored(alpha, previous, current) ==
    IF previous = UNDEF
    THEN current
    ELSE [previous EXCEPT
            !.x = Ema(alpha, current.x, previous.x),
            !.y = Ema(alpha, current.y, previous.y),
            !.z = IF current.z # UNDEF /\ previous.z # UNDEF
                  THEN Ema(alpha, current.z, previous.z)
                  ELSE current.z]

\* one iteration of the loop of smooth(): the landmark pushed to the result,
\* which is also the landmark stored for the keypoint
SmoothLandmark(alpha, previous, current) ==
    IF previous = UNDEF
    THEN current
    ELSE [current EXCEPT
            !.x = Ema(alpha, current.x, previous.x),
            !.y = Ema(alpha, current.y, previous.y),
            !.z = IF current.z # UNDEF /\ previous.z # UNDEF
                  THEN Ema(alpha, current.z, previous.z)
                  ELSE current.z]

\* StoredLandmark keeping the raw landmark as the history
StoredLandmarkRaw(emitted, current) == current

\* what the loop stores with previousLandmarks.set for a landmark it emitted
StoredLandmark(emitted, current) == emitted

\* LandmarkSmoother.smooth: the loop over currentLandmarks from index i on
RECURSIVE SmoothFrom(_, _, _, _)
SmoothFrom(self, currentLandmarks, i, smoothed) ==
    IF i > Len(currentLandmarks)
    THEN [self |-> self, result |-> smoothed]
    ELSE LET current  == currentLandmarks[i]
             previous == MapGet(self.previousLandmarks, current.name)
             emitted  == SmoothLandmark(self.alpha, previous, current)
         IN  SmoothFrom(
                [self EXCEPT !.previousLandmarks =
                    MapSet(@, current.name, StoredLandmark(emitted, current))],
                currentLandmarks, i + 1, Append(smoothed, emitted))

\* smooth that drops the history of the keypoints the frame does not hold
smoothForgetting(self, currentLandmarks) ==
    SmoothFrom([self EXCEPT !.previousLandmarks =
                    [n \in DOMAIN @ \cap {currentLandmarks[i].name : i \in DOMAIN currentLandmarks}
                        |-> @[n]]],
               currentLandmarks, 1, <<>>)

\* LandmarkSmoother.smooth
smooth(self, currentLandmarks) == SmoothFrom(self, currentLandmarks, 1, <<>>)

\* reset that leaves the history in place
resetKeepsHistory(self) == self

\* LandmarkSmoother.reset
reset(self) == [self EXCEPT !.previousLandmarks = EmptyMap]

\* getSmoother that keeps the singleton and its history when the factor changes
getSmootherKeepsInstance(instance, curAlpha, alpha) ==
    IF instance = Null
    THEN [instance |-> NewLandmarkSmoother(alpha), currentAlpha |-> alpha]
    ELSE [instance |-> [instance EXCEPT !.alpha = MathMax(Zero, MathMin(One, alpha))],
          currentAlpha |-> alpha]

\* getSmoother: the module state after the call; .instance is what it returns
getSmoother(instance, curAlpha, alpha) ==
    IF instance = Null \/ curAlpha # alpha
    THEN [instance |-> NewLandmarkSmoother(alpha), currentAlpha |-> alpha]
    ELSE [instance |-> instance, currentAlpha |-> curAlpha]

\* applySmoothing: the module state after the call and the list it returns
applySmoothing(instance, curAlpha, landmarks, config) ==
    IF ~config.enableSmoothing
    THEN [instance |-> instance, currentAlpha |-> curAlpha, result |-> landmarks]
    ELSE LET g == getSmoother(instance, curAlpha, config.smoothingFactor)
             s == smooth(g.instance, landmarks)
         IN  [instance |-> s.self, currentAlpha |-> g.currentAlpha,
              result |-> s.result]

-----------------------------------------------------------------------------
(* Geometry and joint angles                                               *)

\* the direction of (dy, dx) as a pair of coprime integers <<sy, sx>>
Direction(dy, dx) ==
    LET iy == dy[1] * dx[2]
        ix == dx[1] * dy[2]
        g  == GCD(IAbs(iy), IAbs(ix))
    IN  IF g = 0 THEN <<0, 0>> ELSE <<iy \div g, ix \div g>>

\* Math.atan2(dy, dx) * 180 / Math.PI for the directions of a grid of step 1/2:
\* atan(1/2) and atan(2) are given to a millionth of a degree
Atan2Deg(dy, dx) ==
    IF IsNaN(dy) \/ IsNaN(dx) THEN NaN
    ELSE LET d    == Direction(dy, dx)
             sy   == d[1]
             sx   == d[2]
             base == CASE IAbs(sy) = 0 /\ IAbs(sx) = 0 -> Zero
                       [] IAbs(sy) = 0 /\ IAbs(sx) = 1 -> Zero
                       [] IAbs(sy) = 1 /\ IAbs(sx) = 2 -> Q(26565051, 1000000)
                       [] IAbs(sy) = 1 /\ IAbs(sx) = 1 -> Num(45)
                       [] IAbs(sy) = 2 /\ IAbs(sx) = 1 -> Q(63434949, 1000000)
                       [] IAbs(sy) = 1 /\ IAbs(sx) = 0 -> Num(90)
         IN  IF sx >= 0 THEN Mul(Num(ISign(sy)), base)
             ELSE IF sy >= 0 THEN Sub(Num(180), base)
             ELSE Sub(base, Num(180))

\* calculateAngle without the step that folds a reflex angle back
calculateAngleUnfolded(p1, p2, p3) ==
    MathRound(MathAbs(Sub(Atan2Deg(Sub(p3.y, p2.y), Sub(p3.x, p2.x)),
                          Atan2Deg(Sub(p1.y, p2.y), Sub(p1.x, p2.x)))))

\* calculateAngle without Math.abs
calculateAngleSigned(p1, p2, p3) ==
    LET angle == Sub(Atan2Deg(Sub(p3.y, p2.y), Sub(p3.x, p2.x)),
                     Atan2Deg(Sub(p1.y, p2.y), Sub(p1.x, p2.x)))
    IN  MathRound(IF Gt(angle, Num(180)) THEN Sub(Num(360), angle) ELSE angle)

\* calculateAngle: the angle at p2, in whole degrees
calculateAngle(p1, p2, p3) ==
    LET degrees == Sub(Atan2Deg(Sub(p3.y, p2.y), Sub(p3.x, p2.x)),
                       Atan2Deg(Sub(p1.y, p2.y), Sub(p1.x, p2.x)))
        angle   == MathAbs(degrees)
    IN  MathRound(IF Gt(angle, Num(180)) THEN Sub(Num(360), angle) ELSE angle)

\* the test of getLandmark with the boundary confidence let through
GetLandmarkTestAtLeast(l, name) == l.name = name /\ l.isVisible /\ Ge(l.confidence, Q(1, 2))

\* the test of the find() in getLandmark
GetLandmarkTest(l, name) == l.name = name /\ l.isVisible /\ Gt(l.confidence, Q(1, 2))

\* getLandmark: landmarks.find(...), undefined when nothing matches
getLandmark(landmarks, name) ==
    LET hits == {i \in DOMAIN landmarks : GetLandmarkTest(landmarks[i], name)}
    IN  IF hits = {} THEN UNDEF
        ELSE landmarks[CHOOSE i \in hits : \A j \in hits : i <= j]

\* the midpoint taken to be the left landmark of the pair
MidpointOfLeft(left, right) == [x |-> left.x, y |-> left.y]

\* shoulderMid and hipMid: the midpoint of a left and a right landmark
Midpoint(left, right) ==
    [x |-> Div(Add(left.x, right.x), Num(2)),
     y |-> Div(Add(left.y, right.y), Num(2))]

\* calculateJointAngles: the keys it sets are those whose if-condition holds,
\* each with the angle assigned in that if-block
calculateJointAngles(landmarks) ==
    LET leftShoulder  == getLandmark(landmarks, "left_shoulder")
        leftElbow     == getLandmark(landmarks, "left_elbow")
        leftWrist     == getLandmark(landmarks, "left_wrist")
        rightShoulder == getLandmark(landmarks, "right_shoulder")
        rightElbow    == getLandmark(landmarks, "right_elbow")
        rightWrist    == getLandmark(landmarks, "right_wrist")
        leftHip       == getLandmark(landmarks, "left_hip")
        rightHip      == getLandmark(landmarks, "right_hip")
        leftKnee      == getLandmark(landmarks, "left_knee")
        leftAnkle     == getLandmark(landmarks, "left_ankle")
        rightKnee     == getLandmark(landmarks, "right_knee")
        rightAnkle    == getLandmark(landmarks, "right_ankle")
        shoulderMid   == Midpoint(leftShoulder, rightShoulder)
        hipMid        == Midpoint(leftHip, rightHip)
        verticalRef   == [x |-> shoulderMid.x, y |-> Zero]
        isSet(key) ==
            CASE key = "leftElbow" ->
                    leftShoulder # UNDEF /\ leftElbow # UNDEF /\ leftWrist # UNDEF
              [] key = "rightElbow" ->
                    rightShoulder # UNDEF /\ rightElbow # UNDEF /\ rightWrist # UNDEF
              [] key = "leftShoulder" ->
                    leftElbow # UNDEF /\ leftShoulder # UNDEF /\ leftHip # UNDEF
              [] key = "rightShoulder" ->
                    rightElbow # UNDEF /\ rightShoulder # UNDEF /\ rightHip # UNDEF
              [] key = "leftKnee" ->
                    leftHip # UNDEF /\ leftKnee # UNDEF /\ leftAnkle # UNDEF
              [] key = "rightKnee" ->
                    rightHip # UNDEF /\ rightKnee # UNDEF /\ rightAnkle # UNDEF
              [] key = "leftHip" ->
                    leftShoulder # UNDEF /\ leftHip # UNDEF /\ leftKnee # UNDEF
              [] key = "rightHip" ->
                    rightShoulder # UNDEF /\ rightHip # UNDEF /\ rightKnee # UNDEF
              [] key = "spine" ->
                    /\ leftShoulder # UNDEF /\ rightShoulder # UNDEF
                    /\ leftHip # UNDEF /\ rightHip # UNDEF
        value(key) ==
            CASE key = "leftElbow"     -> calculateAngle(leftShoulder, leftElbow, leftWrist)
              [] key = "rightElbow"    -> calculateAngle(rightShoulder, rightElbow, rightWrist)
              [] key = "leftShoulder"  -> calculateAngle(leftElbow, leftShoulder, leftHip)
              [] key = "rightShoulder" -> calculateAngle(rightElbow, rightShoulder, rightHip)
              [] key = "leftKnee"      -> calculateAngle(leftHip, leftKnee, leftAnkle)
              [] key = "rightKnee"     -> calculateAngle(rightHip, rightKnee, rightAnkle)
              [] key = "leftHip"       -> calculateAngle(leftShoulder, leftHip, leftKnee)
              [] key = "rightHip"      -> calculateAngle(rightShoulder, rightHip, rightKnee)
              [] key = "spine"         -> calculateAngle(verticalRef, shoulderMid, hipMid)
    IN  [key \in {k \in { "leftElbow", "rightElbow", "leftShoulder", "rightShoulder",
                          "leftKnee", "rightKnee", "leftHip", "rightHip", "spine" } :
                    isSet(k)} |-> value(key)]

-----------------------------------------------------------------------------
(* Pose comparison                                                         *)

\* the value of the tolerance parameter when the caller passes none
DefaultTolerance == 15

\* the fields of JointAngles, in declaration order
JointOrder ==
    << "leftShoulder", "rightShoulder", "leftElbow", "rightElbow",
       "leftWrist", "rightWrist", "leftHip", "rightHip", "spine",
       "leftKnee", "rightKnee", "leftAnkle", "rightAnkle",
       "neck", "leftArmpit", "rightArmpit" >>

\* Object.keys(obj); the sum of the loop does not depend on their order
ObjectKeys(obj) == SelectSeq(JointOrder, LAMBDA k : k \in DOMAIN obj)

\* a value used as an operand of arithmetic: undefined becomes NaN
ToNumber(v) == IF v = UNDEF THEN NaN ELSE v

\* the credit without the Math.max(0, ...) around the partial credit
CreditUnclamped(difference, tolerance) ==
    IF Le(difference, tolerance) THEN One
    ELSE Sub(One, Div(Sub(difference, tolerance), tolerance))

\* what one detected joint adds to matchCount
Credit(difference, tolerance) ==
    IF Le(difference, tolerance) THEN One
    ELSE MathMax(Zero, Sub(One, Div(Sub(difference, tolerance), tolerance)))

\* every key of the reference counted, defined or not
IsCountedAlways(refAngle) == TRUE

\* whether the loop goes on to count a reference joint (refAngle !== undefined)
IsCounted(refAngle) == refAngle # UNDEF

\* the return value without the totalCount > 0 guard
FinalScoreUnguarded(matchCount, totalCount) ==
    MathRound(Mul(Div(matchCount, Num(totalCount)), Num(100)))

\* the return value rounded up instead of to the nearest integer
FinalScoreCeil(matchCount, totalCount) ==
    IF totalCount > 0
    THEN LET v == Mul(Div(matchCount, Num(totalCount)), Num(100))
         IN  IF ~IsFinite(v) THEN v ELSE Num(-((-v[1]) \div v[2]))
    ELSE Zero

\* the return value of comparePoseAngles
FinalScore(matchCount, totalCount) ==
    IF totalCount > 0
    THEN MathRound(Mul(Div(matchCount, Num(totalCount)), Num(100)))
    ELSE Zero

\* comparePoseAngles: the loop over angleKeys from index i on
RECURSIVE CompareFrom(_, _, _, _, _, _, _)
CompareFrom(detectedAngles, referenceAngles, tolerance, angleKeys, i, matchCount, totalCount) ==
    IF i > Len(angleKeys) THEN FinalScore(matchCount, totalCount)
    ELSE LET key      == angleKeys[i]
             refAngle == MapGet(referenceAngles, key)
             detAngle == MapGet(detectedAngles, key)
             difference == MathAbs(Sub(ToNumber(refAngle), ToNumber(detAngle)))
         IN  IF ~IsCounted(refAngle)
             THEN CompareFrom(detectedAngles, referenceAngles, tolerance, angleKeys,
                              i + 1, matchCount, totalCount)
             ELSE IF detAngle = UNDEF
             THEN CompareFrom(detectedAngles, referenceAngles, tolerance, angleKeys,
                              i + 1, matchCount, totalCount + 1)
             ELSE CompareFrom(detectedAngles, referenceAngles, tolerance, angleKeys,
                              i + 1, Add(matchCount, Credit(difference, tolerance)),
                              totalCount + 1)

\* comparePoseAngles(detectedAngles, referenceAngles, tolerance = 15)
comparePoseAngles(detectedAngles, referenceAngles, tolerance) ==
    CompareFrom(detectedAngles, referenceAngles,
                IF tolerance = UNDEF THEN Num(DefaultTolerance) ELSE tolerance,
                ObjectKeys(referenceAngles), 1, Zero, 0)

-----------------------------------------------------------------------------
(* Pose feedback                                                           *)

\* key.replace(/([A-Z])/g, ' $1').trim() for the fields of JointAngles
JointName(key) ==
    CASE key = "leftShoulder"  -> "left Shoulder"
      [] key = "rightShoulder" -> "right Shoulder"
      [] key = "leftElbow"     -> "left Elbow"
      [] key = "rightElbow"    -> "right Elbow"
      [] key = "leftWrist"     -> "left Wrist"
      [] key = "rightWrist"    -> "right Wrist"
      [] key = "leftHip"       -> "left Hip"
      [] key = "rightHip"      -> "right Hip"
      [] key = "spine"         -> "spine"
      [] key = "leftKnee"      -> "left Knee"
      [] key = "rightKnee"     -> "right Knee"
      [] key = "leftAnkle"     -> "left Ankle"
      [] key = "rightAnkle"    -> "right Ankle"
      [] key = "neck"          -> "neck"
      [] key = "leftArmpit"    -> "left Armpit"
      [] key = "rightArmpit"   -> "right Armpit"

\* a number inside a template literal; Math.round leaves no fraction to print
NumberToString(a) ==
    CASE IsNaN(a)   -> "NaN"
      [] a = PosInf -> "Infinity"
      [] a = NegInf -> "-Infinity"
      [] a[2] = 1   -> ToString(a[1])

\* the test of feedback with a difference equal to the tolerance let through
NeedsFeedbackAtLeast(difference, tolerance) == Ge(MathAbs(difference), tolerance)

\* whether a joint gets an instruction: Math.abs(difference) > tolerance
NeedsFeedback(difference, tolerance) == Gt(MathAbs(difference), tolerance)

\* the instruction pushed for a joint whose difference is detAngle - refAngle
FeedbackLine(key, difference) ==
    IF Gt(difference, Zero)
    THEN JointName(key) \o ": Reduce angle by ~"
            \o NumberToString(MathRound(MathAbs(difference))) \o "°"
    ELSE JointName(key) \o ": Increase angle by ~"
            \o NumberToString(MathRound(MathAbs(difference))) \o "°"

\* generatePoseFeedback: the loop over angleKeys from index i on
RECURSIVE FeedbackFrom(_, _, _, _, _, _)
FeedbackFrom(detectedAngles, referenceAngles, tolerance, angleKeys, i, feedback) ==
    IF i > Len(angleKeys) THEN feedback
    ELSE LET key        == angleKeys[i]
             refAngle   == MapGet(referenceAngles, key)
             detAngle   == MapGet(detectedAngles, key)
             difference == Sub(ToNumber(detAngle), ToNumber(refAngle))
         IN  IF refAngle = UNDEF \/ detAngle = UNDEF
             THEN FeedbackFrom(detectedAngles, referenceAngles, tolerance, angleKeys,
                               i + 1, feedback)
             ELSE IF NeedsFeedback(difference, tolerance)
             THEN FeedbackFrom(detectedAngles, referenceAngles, tolerance, angleKeys,
                               i + 1, Append(feedback, FeedbackLine(key, difference)))
             ELSE FeedbackFrom(detectedAngles, referenceAngles, tolerance, angleKeys,
                               i + 1, feedback)

\* generatePoseFeedback(detectedAngles, referenceAngles, tolerance = 15)
generatePoseFeedback(detectedAngles, referenceAngles, tolerance) ==
    FeedbackFrom(detectedAngles, referenceAngles,
                 IF tolerance = UNDEF THEN Num(DefaultTolerance) ELSE tolerance,
                 ObjectKeys(referenceAngles), 1, <<>>)

-----------------------------------------------------------------------------
(* Confidence and visibility                                               *)

\* Math.floor(a)
MathFloor(a) == IF ~IsFinite(a) THEN a ELSE Num(a[1] \div a[2])

\* reduce((sum, l) => sum + l.confidence, 0) from index i on
RECURSIVE SumConfidence(_, _, _)
SumConfidence(visibleLandmarks, i, sum) ==
    IF i > Len(visibleLandmarks) THEN sum
    ELSE SumConfidence(visibleLandmarks, i + 1, Add(sum, visibleLandmarks[i].confidence))

\* the filter of calculatePoseConfidence letting every landmark through
CountsForConfidenceAlways(l) == TRUE

\* the filter of calculatePoseConfidence
CountsForConfidence(l) == l.isVisible

\* calculatePoseConfidence
calculatePoseConfidence(landmarks) ==
    IF Len(landmarks) = 0 THEN Zero
    ELSE LET visibleLandmarks == SelectSeq(landmarks, CountsForConfidence)
         IN  IF Len(visibleLandmarks) = 0 THEN Zero
             ELSE Div(SumConfidence(visibleLandmarks, 1, Zero),
                      Num(Len(visibleLandmarks)))

\* criticalPoints of isPersonFullyVisible
CriticalPoints ==
    << "nose", "left_shoulder", "right_shoulder", "left_hip", "right_hip",
       "left_knee", "right_knee" >>

\* array.includes(name)
Includes(array, name) == \E i \in DOMAIN array : array[i] = name

\* the verdict of isPersonFullyVisible at a 50% threshold
EnoughCriticalHalf(count, total) == Ge(Num(count), Mul(Num(total), Q(1, 2)))

\* the return of isPersonFullyVisible: count >= total * 0.7
EnoughCritical(count, total) == Ge(Num(count), Mul(Num(total), Q(7, 10)))

\* isPersonFullyVisible
isPersonFullyVisible(landmarks) ==
    LET visibleCriticalPoints ==
            SelectSeq(landmarks, LAMBDA l : /\ Includes(CriticalPoints, l.name)
                                            /\ l.isVisible
                                            /\ Gt(l.confidence, Q(1, 2)))
    IN  EnoughCritical(Len(visibleCriticalPoints), Len(CriticalPoints))

\* bodyPartKeypoints[bodyPart] || []
BodyPartKeypoints(bodyPart) ==
    CASE bodyPart = "head"  -> << "nose", "left_eye", "right_eye" >>
      [] bodyPart = "torso" -> << "left_shoulder", "right_shoulder", "left_hip", "right_hip" >>
      [] bodyPart = "arms"  -> << "left_elbow", "right_elbow", "left_wrist", "right_wrist" >>
      [] bodyPart = "legs"  -> << "left_knee", "right_knee", "left_ankle", "right_ankle" >>
      [] OTHER              -> << >>

\* the verdict of isBodyPartVisible asking for more than half
EnoughOfPartStrict(count, total) == Gt(Num(count), Mul(Num(total), Q(1, 2)))

\* the return of isBodyPartVisible: count >= total * 0.5
EnoughOfPart(count, total) == Ge(Num(count), Mul(Num(total), Q(1, 2)))

\* isBodyPartVisible
isBodyPartVisible(landmarks, bodyPart) ==
    LET relevantPoints == BodyPartKeypoints(bodyPart)
        visiblePoints  ==
            SelectSeq(landmarks, LAMBDA l : /\ Includes(relevantPoints, l.name)
                                            /\ l.isVisible
                                            /\ Gt(l.confidence, Q(1, 2)))
    IN  EnoughOfPart(Len(visiblePoints), Len(relevantPoints))

\* calculateAngle of poseDetection.ts: the same angle, not rounded
calculateAngle_poseDetection(point1, point2, point3) ==
    LET degrees == Sub(Atan2Deg(Sub(point3.y, point2.y), Sub(point3.x, point2.x)),
                       Atan2Deg(Sub(point1.y, point2.y), Sub(point1.x, point2.x)))
        angle   == MathAbs(degrees)
    IN  IF Gt(angle, Num(180)) THEN Sub(Num(360), angle) ELSE angle

-----------------------------------------------------------------------------
(* PoseCamera                                                              *)

\* createPoseData that calls applySmoothing whatever the configuration says
SmoothedLandmarksAlways(instance, curAlpha, landmarks, config) ==
    applySmoothing(instance, curAlpha, landmarks, [config EXCEPT !.enableSmoothing = TRUE])

\* config.enableSmoothing ? applySmoothing(landmarks, config) : landmarks,
\* with the module state it leaves
SmoothedLandmarks(instance, curAlpha, landmarks, config) ==
    IF config.enableSmoothing
    THEN applySmoothing(instance, curAlpha, landmarks, config)
    ELSE [instance |-> instance, currentAlpha |-> curAlpha, result |-> landmarks]

\* createPoseData that drops the landmarks below config.minConfidence before
\* it computes angles, confidence and visibility
createPoseDataFloored(instance, curAlpha, landmarks, config, random, now) ==
    LET s == SmoothedLandmarks(instance, curAlpha, landmarks, config)
        smoothedLandmarks == s.result
        trusted == SelectSeq(smoothedLandmarks,
                             LAMBDA l : Ge(l.confidence, config.minConfidence))
    IN  [instance     |-> s.instance,
         currentAlpha |-> s.currentAlpha,
         result       |->
            [landmarks        |-> smoothedLandmarks,
             angles           |-> calculateJointAngles(trusted),
             confidence       |-> calculatePoseConfidence(trusted),
             timestamp        |-> now,
             frameNumber      |-> MathFloor(Mul(random, Num(1000))),
             isPersonDetected |-> isPersonFullyVisible(trusted)]]

\* createPoseData: the module state after the call and the PoseData it returns;
\* random is the value of Math.random() and now the value of Date.now()
createPoseData(instance, curAlpha, landmarks, config, random, now) ==
    LET s == SmoothedLandmarks(instance, curAlpha, landmarks, config)
        smoothedLandmarks == s.result
    IN  [instance     |-> s.instance,
         currentAlpha |-> s.currentAlpha,
         result       |->
            [landmarks        |-> smoothedLandmarks,
             angles           |-> calculateJointAngles(smoothedLandmarks),
             confidence       |-> calculatePoseConfidence(smoothedLandmarks),
             timestamp        |-> now,
             frameNumber      |-> MathFloor(Mul(random, Num(1000))),
             isPersonDetected |-> isPersonFullyVisible(smoothedLandmarks)]]

-----------------------------------------------------------------------------
(* Inputs of the smoother                                                  *)

\* number of operations in one behaviour
MaxCalls == 3

\* keypoints that occur in the frames fed to the smoother
SmoothNames == {"nose", "left_knee"}

MkLandmark(name, x, y, z, confidence, isVisible) ==
    [name |-> name, x |-> x, y |-> y, z |-> z,
     confidence |-> confidence, isVisible |-> isVisible]

\* raw detections: position, optional depth, confidence, visibility
RawLandmarks ==
    { MkLandmark("nose",      One,     Zero,    UNDEF, Q(9, 10), TRUE),
      MkLandmark("nose",      Zero,    One,     Zero,  Q(2, 5),  FALSE),
      MkLandmark("left_knee", Q(1, 2), Q(1, 4), One,   Q(1, 2),  TRUE),
      MkLandmark("left_knee", One,     One,     Zero,  Q(4, 5),  FALSE) }

\* a frame holds at most one landmark per keypoint name
Frames ==
    {<<>>} \cup {<<l>> : l \in RawLandmarks}
           \cup {f \in {<<l, m>> : l \in RawLandmarks, m \in RawLandmarks} :
                    f[1].name # f[2].name}

\* config.smoothingFactor as callers pass it (3/2 is out of range)
SmoothingFactors == {Zero, Q(1, 2), One, Q(3, 2)}

Configs ==
    [enableSmoothing : {TRUE}, smoothingFactor : SmoothingFactors]
        \cup {[enableSmoothing |-> FALSE, smoothingFactor |-> Q(1, 2)]}

Sessions == {"A", "B"}

Names(landmarks) == {landmarks[i].name : i \in DOMAIN landmarks}

-----------------------------------------------------------------------------
(* Operations on the module state                                          *)

Init ==
    /\ smootherInstance = Null
    /\ currentAlpha = Q(1, 2)
    /\ call = [op |-> "init"]
    /\ prevOp = [op |-> "none", names |-> {}]
    /\ nCalls = 0
    /\ fed = [s \in Sessions |-> <<>>]
    /\ got = [s \in Sessions |-> <<>>]

Summary(c) ==
    [op |-> c.op,
     names |-> IF c.op = "applySmoothing" THEN Names(c.landmarks)
               ELSE IF c.op = "reset" THEN c.cleared ELSE {}]

\* a caller runs applySmoothing(landmarks, config)
ApplySmoothingCall(landmarks, config) ==
    LET r == applySmoothing(smootherInstance, currentAlpha, landmarks, config)
    IN  /\ nCalls < MaxCalls
        /\ smootherInstance' = r.instance
        /\ currentAlpha' = r.currentAlpha
        /\ call' = [op |-> "applySmoothing", landmarks |-> landmarks,
                    config |-> config, result |-> r.result]
        /\ prevOp' = Summary(call)
        /\ nCalls' = nCalls + 1

ApplySmoothing(landmarks, config) ==
    /\ ApplySmoothingCall(landmarks, config)
    /\ UNCHANGED <<fed, got>>

\* a caller runs getSmoother(alpha).reset()
Reset(alpha) ==
    LET g == getSmoother(smootherInstance, currentAlpha, alpha)
    IN  /\ nCalls < MaxCalls
        /\ smootherInstance' = reset(g.instance)
        /\ currentAlpha' = g.currentAlpha
        /\ call' = [op |-> "reset", alpha |-> alpha,
                    cleared |-> DOMAIN g.instance.previousLandmarks]
        /\ prevOp' = Summary(call)
        /\ nCalls' = nCalls + 1
        /\ UNCHANGED <<fed, got>>

Next ==
    \/ \E landmarks \in Frames, config \in Configs : ApplySmoothing(landmarks, config)
    \/ \E alpha \in SmoothingFactors : Reset(alpha)

Spec == Init /\ [][Next]_vars

-----------------------------------------------------------------------------
(* Two detection sessions feeding frames through applySmoothing            *)

SessionFrames == {f \in Frames : Len(f) = 1 /\ f[1].name = "nose"}

SessionConfigs == {c \in Configs : c.enableSmoothing /\ c.smoothingFactor \in {Q(1, 2), One}}

\* session s runs applySmoothing(landmarks, config) on its next frame
SessionApplySmoothing(s, landmarks, config) ==
    /\ ApplySmoothingCall(landmarks, config)
    /\ fed' = [fed EXCEPT ![s] = Append(@, [landmarks |-> landmarks, config |-> config])]
    /\ got' = [got EXCEPT ![s] = Append(@, call'.result)]

NextSessions ==
    \E s \in Sessions, landmarks \in SessionFrames, config \in SessionConfigs :
        SessionApplySmoothing(s, landmarks, config)

SpecSessions == Init /\ [][NextSessions]_vars

-----------------------------------------------------------------------------
(* calculateJointAngles applied to one frame                               *)

\* the 17 keypoints, in the order the detector lists them
KeypointOrder ==
    << "nose", "left_eye", "right_eye", "left_ear", "right_ear",
       "left_shoulder", "right_shoulder", "left_elbow", "right_elbow",
       "left_wrist", "right_wrist", "left_hip", "right_hip",
       "left_knee", "right_knee", "left_ankle", "right_ankle" >>

Keypoints == {KeypointOrder[i] : i \in DOMAIN KeypointOrder}

\* a person standing, arms half bent; positions in tenths of the frame
Standing ==
    [ nose |-> <<5, 1>>, left_eye |-> <<4, 1>>, right_eye |-> <<6, 1>>,
      left_ear |-> <<3, 1>>, right_ear |-> <<7, 1>>,
      left_shoulder |-> <<4, 2>>, right_shoulder |-> <<6, 2>>,
      left_elbow |-> <<3, 3>>, right_elbow |-> <<7, 3>>,
      left_wrist |-> <<3, 4>>, right_wrist |-> <<7, 4>>,
      left_hip |-> <<4, 5>>, right_hip |-> <<6, 5>>,
      left_knee |-> <<4, 7>>, right_knee |-> <<6, 7>>,
      left_ankle |-> <<4, 9>>, right_ankle |-> <<6, 9>> ]

\* the same person with the left knee bent outwards and the right arm raised
Tree ==
    [Standing EXCEPT !.left_knee = <<3, 6>>, !.left_ankle = <<4, 7>>,
                     !.right_elbow = <<7, 1>>, !.right_wrist = <<7, 0>>]

Poses == {Standing, Tree}

\* how many keypoints of a frame are degraded
MaxDegraded == 2

\* what can be wrong with a keypoint: not in the list, marked occluded,
\* confidence 0.4, confidence exactly 0.5
BadModes == {"absent", "hidden", "low", "edge"}

\* the sets of at most k keypoints
RECURSIVE KeypointSets(_)
KeypointSets(k) ==
    IF k = 0 THEN {{}}
    ELSE LET smaller == KeypointSets(k - 1)
         IN  smaller \cup {D \cup {n} : D \in smaller, n \in Keypoints}

\* every assignment of a bad mode to at most MaxDegraded keypoints
Degradations == UNION {[D -> BadModes] : D \in KeypointSets(MaxDegraded)}

\* the landmark list of a pose under a degradation
PoseFrame(pose, bad) ==
    LET mode(n) == IF n \in DOMAIN bad THEN bad[n] ELSE "ok"
        lm(n)   == MkLandmark(n, Q(pose[n][1], 10), Q(pose[n][2], 10), Q(1, 2),
                              CASE mode(n) = "low"  -> Q(2, 5)
                                [] mode(n) = "edge" -> Q(1, 2)
                                [] OTHER            -> Q(9, 10),
                              mode(n) # "hidden")
        all     == [i \in DOMAIN KeypointOrder |-> lm(KeypointOrder[i])]
    IN  SelectSeq(all, LAMBDA l : mode(l.name) # "absent")

InitAngles ==
    /\ smootherInstance = Null
    /\ currentAlpha = Q(1, 2)
    /\ \E pose \in Poses, bad \in Degradations :
          call = [op |-> "input", landmarks |-> PoseFrame(pose, bad)]
    /\ prevOp = [op |-> "none", names |-> {}]
    /\ nCalls = 0
    /\ fed = [s \in Sessions |-> <<>>]
    /\ got = [s \in Sessions |-> <<>>]

\* a caller runs calculateJointAngles(landmarks)
CalculateJointAngles ==
    /\ call.op = "input"
    /\ call' = [op |-> "calculateJointAngles", landmarks |-> call.landmarks,
                result |-> calculateJointAngles(call.landmarks)]
    /\ prevOp' = Summary(call)
    /\ nCalls' = nCalls + 1
    /\ UNCHANGED <<smootherInstance, currentAlpha, fed, got>>

NextAngles == CalculateJointAngles

SpecAngles == InitAngles /\ [][NextAngles]_vars

-----------------------------------------------------------------------------
(* comparePoseAngles applied to one pair of angle maps                     *)

\* the joints of the maps that are compared
CompareJoints == {"leftKnee", "rightKnee"}

\* what a joint holds in a map: undefined, an angle in degrees, or NaN
AngleValues == {UNDEF, Num(60), Num(90), Num(111), Num(170), Num(180), NaN}

\* a map with any of the joints as keys
AngleMaps == UNION {[K -> AngleValues] : K \in SUBSET CompareJoints}

\* the tolerance argument: left out, 15 or 20 degrees, zero, negative
Tolerances == {UNDEF, Num(15), Num(20), Zero, Num(-15)}

InitCompare ==
    /\ smootherInstance = Null
    /\ currentAlpha = Q(1, 2)
    /\ \E detected \in AngleMaps, reference \in AngleMaps, tolerance \in Tolerances :
          call = [op |-> "input", detected |-> detected, reference |-> reference,
                  tolerance |-> tolerance]
    /\ prevOp = [op |-> "none", names |-> {}]
    /\ nCalls = 0
    /\ fed = [s \in Sessions |-> <<>>]
    /\ got = [s \in Sessions |-> <<>>]

\* a caller runs comparePoseAngles(detected, reference, tolerance)
ComparePoseAngles ==
    /\ call.op = "input"
    /\ call' = [op |-> "comparePoseAngles", detected |-> call.detected,
                reference |-> call.reference, tolerance |-> call.tolerance,
                result |-> comparePoseAngles(call.detected, call.reference,
                                             call.tolerance)]
    /\ prevOp' = [op |-> "input", names |-> {}]
    /\ nCalls' = nCalls + 1
    /\ UNCHANGED <<smootherInstance, currentAlpha, fed, got>>

NextCompare == ComparePoseAngles

SpecCompare == InitCompare /\ [][NextCompare]_vars

-----------------------------------------------------------------------------
(* Properties of the smoother                                              *)

Coords(l) == <<l.x, l.y, l.z>>

SmoothingRan(c) == c.op = "applySmoothing" /\ c.config.enableSmoothing

\* the history of the instance that a call with this factor runs smooth() on
HistoryFor(factor) ==
    IF smootherInstance # Null /\ currentAlpha = factor
    THEN smootherInstance.previousLandmarks
    ELSE EmptyMap

\* C1: a landmark whose keypoint has no stored history when smooth() receives it
\* is emitted with exactly its raw x, y and z, whatever the smoothing factor.
C1_FirstFramePassThrough ==
    [][SmoothingRan(call') =>
        \A i \in DOMAIN call'.landmarks :
            call'.landmarks[i].name \notin DOMAIN HistoryFor(call'.config.smoothingFactor)
                => Coords(call'.result[i]) = Coords(call'.landmarks[i])]_vars

\* C1 witness: the first frame of a fresh smoother with factor 1/2 came out raw
C1_Witness ==
    /\ nCalls = 1
    /\ SmoothingRan(call)
    /\ call.config.smoothingFactor = Q(1, 2)
    /\ Len(call.landmarks) = 2
    /\ \A i \in DOMAIN call.landmarks : Coords(call.result[i]) = Coords(call.landmarks[i])

\* C2: a landmark whose keypoint has history is emitted as
\* alpha*raw + (1-alpha)*previous in x and y (and in z when both z are present),
\* previous being the stored value; what is emitted becomes the stored value,
\* and the stored value of a keypoint not in the frame is left as it was.
C2_EmaRecurrence ==
    [][SmoothingRan(call') =>
        LET hist  == HistoryFor(call'.config.smoothingFactor)
            alpha == smootherInstance'.alpha
            beta  == Sub(One, alpha)
            after == smootherInstance'.previousLandmarks
        IN  /\ \A i \in DOMAIN call'.landmarks :
                  LET raw  == call'.landmarks[i]
                      out  == call'.result[i]
                  IN  /\ after[raw.name] = out
                      /\ raw.name \in DOMAIN hist =>
                            LET prev == hist[raw.name]
                            IN  /\ out.x = Add(Mul(alpha, raw.x), Mul(beta, prev.x))
                                /\ out.y = Add(Mul(alpha, raw.y), Mul(beta, prev.y))
                                /\ (raw.z # UNDEF /\ prev.z # UNDEF) =>
                                      out.z = Add(Mul(alpha, raw.z), Mul(beta, prev.z))
            /\ \A n \in DOMAIN hist \ Names(call'.landmarks) : after[n] = hist[n]]_vars

\* C2 witness: the nose went 1, 0, 0 through factor 1/2 and came out 1/4, which
\* is the average against the smoothed 1/2 and not against the raw 0
C2_Witness ==
    /\ nCalls = 3
    /\ SmoothingRan(call)
    /\ \E i \in DOMAIN call.result :
          /\ call.result[i].name = "nose"
          /\ call.landmarks[i].x = Zero
          /\ call.result[i].x = Q(1, 4)

RECURSIVE RunAloneFrom(_, _, _, _, _)
RunAloneFrom(instance, curAlpha, frames, i, outs) ==
    IF i > Len(frames) THEN outs
    ELSE LET r == applySmoothing(instance, curAlpha, frames[i].landmarks, frames[i].config)
         IN  RunAloneFrom(r.instance, r.currentAlpha, frames, i + 1, Append(outs, r.result))

\* the outputs of a frame sequence run alone from a freshly loaded module
RunAlone(frames) == RunAloneFrom(Null, Q(1, 2), frames, 1, <<>>)

\* C3: in any interleaving of two sessions, each session's outputs equal what
\* it would get running alone on a fresh smoother.
C3_SessionIsolation == \A s \in Sessions : got[s] = RunAlone(fed[s])

\* C4: the smooth() call that follows reset() emits every landmark with its
\* raw coordinates.
C4_ResetClearsHistory ==
    (prevOp.op = "reset" /\ SmoothingRan(call)) =>
        \A i \in DOMAIN call.landmarks :
            Coords(call.result[i]) = Coords(call.landmarks[i])

\* C4 witness: reset() cleared the history of a keypoint and the next frame,
\* through a smoother of factor 1/2, held that keypoint and came out raw
C4_Witness ==
    /\ prevOp.op = "reset"
    /\ SmoothingRan(call)
    /\ smootherInstance.alpha = Q(1, 2)
    /\ prevOp.names \cap Names(call.landmarks) # {}
    /\ \A i \in DOMAIN call.landmarks :
          Coords(call.result[i]) = Coords(call.landmarks[i])

-----------------------------------------------------------------------------
(* Properties of calculateJointAngles                                      *)

\* a landmark of that name is in the list, visible, with confidence above 0.5
Qualifies(landmarks, name) ==
    \E i \in DOMAIN landmarks :
        /\ landmarks[i].name = name
        /\ landmarks[i].isVisible
        /\ landmarks[i].confidence[1] * 2 > landmarks[i].confidence[2]

\* the three landmarks that define each point-defined joint
JointLandmarks ==
    [ leftElbow     |-> {"left_shoulder", "left_elbow", "left_wrist"},
      rightElbow    |-> {"right_shoulder", "right_elbow", "right_wrist"},
      leftShoulder  |-> {"left_elbow", "left_shoulder", "left_hip"},
      rightShoulder |-> {"right_elbow", "right_shoulder", "right_hip"},
      leftKnee      |-> {"left_hip", "left_knee", "left_ankle"},
      rightKnee     |-> {"right_hip", "right_knee", "right_ankle"},
      leftHip       |-> {"left_shoulder", "left_hip", "left_knee"},
      rightHip      |-> {"right_shoulder", "right_hip", "right_knee"} ]

\* C5: a point-defined joint is a key of the result if and only if its three
\* defining landmarks are all in the list, visible and of confidence above 0.5.
C5_JointPresence ==
    call.op = "calculateJointAngles" =>
        \A j \in DOMAIN JointLandmarks :
            j \in DOMAIN call.result
                <=> \A n \in JointLandmarks[j] : Qualifies(call.landmarks, n)

\* C5 witness: the left wrist has confidence exactly 0.5 and the right knee 0.4;
\* the joints that use them are absent and the other joints are present
C5_Witness ==
    /\ call.op = "calculateJointAngles"
    /\ \E i, k \in DOMAIN call.landmarks :
          /\ call.landmarks[i].name = "left_wrist"
          /\ call.landmarks[i].confidence = Q(1, 2)
          /\ call.landmarks[k].name = "right_knee"
          /\ call.landmarks[k].confidence = Q(2, 5)
    /\ DOMAIN call.result \cap DOMAIN JointLandmarks =
          {"rightElbow", "leftShoulder", "rightShoulder", "leftKnee", "leftHip"}

\* the 14 joint identifiers the documentation lists
FourteenJoints ==
    { "leftElbow", "rightElbow", "leftShoulder", "rightShoulder",
      "leftWrist", "rightWrist", "leftHip", "rightHip",
      "leftKnee", "rightKnee", "leftAnkle", "rightAnkle", "neck", "spine" }

\* C6: with all 17 keypoints present, visible and confident, the result holds
\* a value for each of the 14 joint identifiers.
C6_AllFourteenJoints ==
    (/\ call.op = "calculateJointAngles"
     /\ \A n \in Keypoints : Qualifies(call.landmarks, n))
        => FourteenJoints \subseteq DOMAIN call.result

-----------------------------------------------------------------------------
(* Properties of comparePoseAngles                                         *)

\* the joints a map gives a value to
DefinedJoints(angles) == {k \in DOMAIN angles : angles[k] # UNDEF}

\* the tolerance in whole degrees that a call compares with
ToleranceOf(c) == IF c.tolerance = UNDEF THEN 15 ELSE c.tolerance[1]

\* no angle that enters the comparison is NaN
ComparesNumbers(c) ==
    \A j \in DefinedJoints(c.reference) :
        /\ c.reference[j] # NaN
        /\ j \in DefinedJoints(c.detected) => c.detected[j] # NaN

\* the credit of reference joint j, times unit (unit is |tolerance|, or 1 when
\* the tolerance is 0): none when the joint was not detected, full within the
\* tolerance, otherwise max(0, 1 - (diff - tolerance) / tolerance), which for a
\* tolerance of 0 or more is linear and none from twice the tolerance on
CreditTimes(unit, c, j) ==
    LET t == ToleranceOf(c)
    IN  IF j \notin DefinedJoints(c.detected) THEN 0
        ELSE LET diff == IAbs(c.detected[j][1] - c.reference[j][1])
             IN  IF diff <= t THEN unit
                 ELSE IF t >= 0 THEN (IF diff >= 2 * t THEN 0 ELSE 2 * t - diff)
                 ELSE diff - 2 * t

RECURSIVE CreditSum(_, _, _)
CreditSum(unit, c, joints) ==
    IF joints = {} THEN 0
    ELSE LET j == CHOOSE k \in joints : TRUE
         IN  CreditTimes(unit, c, j) + CreditSum(unit, c, joints \ {j})

KneesReference == [leftKnee |-> Num(90), rightKnee |-> Num(180)]

\* C7: for a reference with n >= 1 defined joints the score is
\* 100 * (sum of credits) / n rounded to the nearest integer (a tie upwards),
\* a joint missing from detected earning 0, one within the tolerance 1, any
\* other max(0, 1 - (diff - tolerance) / tolerance), which at a tolerance of 0
\* or more is 0 from twice the tolerance on; {leftKnee:60} against
\* {leftKnee:90, rightKnee:180} at tolerance 15 scores 0 and
\* {leftKnee:90, rightKnee:170} against the same reference scores 100.
C7_Scoring ==
    (call.op = "comparePoseAngles" /\ ComparesNumbers(call)) =>
        LET joints == DefinedJoints(call.reference)
            n      == Cardinality(joints)
            unit   == IF ToleranceOf(call) = 0 THEN 1 ELSE IAbs(ToleranceOf(call))
            total  == CreditSum(unit, call, joints)
            score  == call.result[1]
        IN  /\ n > 0 =>
                /\ call.result[2] = 1
                /\ 2 * score * n * unit - n * unit <= 200 * total
                /\ 200 * total < 2 * score * n * unit + n * unit
            /\ (/\ call.reference = KneesReference
                /\ ToleranceOf(call) = 15
                /\ call.detected = [leftKnee |-> Num(60)]) => call.result = Zero
            /\ (/\ call.reference = KneesReference
                /\ ToleranceOf(call) = 15
                /\ call.detected = [leftKnee |-> Num(90), rightKnee |-> Num(170)])
                    => call.result = Num(100)

\* C7 witness: a difference of 21 at tolerance 15 earns 3/5 and a difference of
\* 10 earns 1, so the score is 80
C7_Witness ==
    /\ call.op = "comparePoseAngles"
    /\ call.tolerance = Num(15)
    /\ call.reference = KneesReference
    /\ call.detected = [leftKnee |-> Num(111), rightKnee |-> Num(170)]
    /\ call.result = Num(80)

\* C8: the score is an integer from 0 to 100, for every detected map, every
\* reference map and every tolerance.
C8_ScoreRange ==
    call.op = "comparePoseAngles" =>
        /\ call.result[2] = 1
        /\ 0 <= call.result[1]
        /\ call.result[1] <= 100

\* C9 as claimed: every angle map compared with itself at tolerance 15 scores 100.
C9_IdentityAnyMap ==
    (/\ call.op = "comparePoseAngles"
     /\ call.detected = call.reference
     /\ call.tolerance = Num(15)) => call.result = Num(100)

\* C9 as amended: an angle map that defines at least one joint, none of them
\* NaN, scores 100 against itself at tolerance 15; a map that defines no joint
\* scores 0 against itself.
C9_IdentityDefinedMap ==
    (/\ call.op = "comparePoseAngles"
     /\ call.detected = call.reference
     /\ call.tolerance = Num(15)
     /\ ComparesNumbers(call)) =>
        call.result = IF DefinedJoints(call.reference) = {} THEN Zero ELSE Num(100)

\* C9 witness: the map of both knees against itself scored 100
C9_Witness ==
    /\ call.op = "comparePoseAngles"
    /\ call.tolerance = Num(15)
    /\ call.reference = KneesReference
    /\ call.detected = KneesReference
    /\ call.result = Num(100)

\* C10: a reference that defines no joint scores 0 whatever was detected, and
\* so does a detected map that defines no joint against a reference that does.
C10_EmptyPolicy ==
    call.op = "comparePoseAngles" =>
        /\ DefinedJoints(call.reference) = {} => call.result = Zero
        /\ (DefinedJoints(call.detected) = {} /\ DefinedJoints(call.reference) # {})
              => call.result = Zero

\* C10 witness: both knees were detected, the reference has no key, the score is 0
C10_Witness ==
    /\ call.op = "comparePoseAngles"
    /\ call.reference = EmptyMap
    /\ Cardinality(DefinedJoints(call.detected)) = 2
    /\ call.result = Zero

-----------------------------------------------------------------------------
(* generatePoseFeedback applied to one pair of angle maps                  *)

\* what a joint holds in a map given to the feedback: undefined, whole and
\* half degrees, or NaN
FeedbackAngles == {UNDEF, Num(60), Num(75), Num(90), Q(211, 2), NaN}

FeedbackMaps == UNION {[K -> FeedbackAngles] : K \in SUBSET CompareJoints}

InitFeedback ==
    /\ smootherInstance = Null
    /\ currentAlpha = Q(1, 2)
    /\ \E detected \in FeedbackMaps, reference \in FeedbackMaps, tolerance \in Tolerances :
          call = [op |-> "input", detected |-> detected, reference |-> reference,
                  tolerance |-> tolerance]
    /\ prevOp = [op |-> "none", names |-> {}]
    /\ nCalls = 0
    /\ fed = [s \in Sessions |-> <<>>]
    /\ got = [s \in Sessions |-> <<>>]

\* a caller runs generatePoseFeedback(detected, reference, tolerance)
GeneratePoseFeedback ==
    /\ call.op = "input"
    /\ call' = [op |-> "generatePoseFeedback", detected |-> call.detected,
                reference |-> call.reference, tolerance |-> call.tolerance,
                result |-> generatePoseFeedback(call.detected, call.reference,
                                                call.tolerance)]
    /\ prevOp' = [op |-> "input", names |-> {}]
    /\ nCalls' = nCalls + 1
    /\ UNCHANGED <<smootherInstance, currentAlpha, fed, got>>

NextFeedback == GeneratePoseFeedback

SpecFeedback == InitFeedback /\ [][NextFeedback]_vars

-----------------------------------------------------------------------------
(* Properties of generatePoseFeedback                                      *)

\* detected - reference of joint j as a fraction <<numerator, denominator>>
\* with a positive denominator (both angles are numbers)
SignedDifference(c, j) ==
    <<c.detected[j][1] * c.reference[j][2] - c.reference[j][1] * c.detected[j][2],
      c.detected[j][2] * c.reference[j][2]>>

\* the reference joints that are measured and off by more than the tolerance
OffJoints(c) ==
    {j \in DefinedJoints(c.reference) \cap DefinedJoints(c.detected) :
        /\ c.reference[j] # NaN
        /\ c.detected[j] # NaN
        /\ IAbs(SignedDifference(c, j)[1]) > ToleranceOf(c) * SignedDifference(c, j)[2]}

\* the instructions the claim allows for an off joint: increase when detected
\* is below the reference, reduce when above, by the rounded distance
AllowedLines(c, j) ==
    LET d      == SignedDifference(c, j)
        amount == ToString((2 * IAbs(d[1]) + d[2]) \div (2 * d[2]))
    IN  {JointName(j) \o ": " \o verb \o " angle by ~" \o amount \o "°" :
            verb \in IF d[1] < 0 THEN {"Increase"}
                     ELSE IF d[1] > 0 THEN {"Reduce"}
                     ELSE {"Increase", "Reduce"}}

\* C11: the feedback holds exactly one instruction for each reference joint
\* that is present in detected and off by strictly more than the tolerance, and
\* nothing else; the instruction says to increase the angle by the rounded
\* distance when detected is below the reference and to reduce it when above.
C11_FeedbackLines ==
    call.op = "generatePoseFeedback" =>
        /\ Len(call.result) = Cardinality(OffJoints(call))
        /\ \A j \in OffJoints(call) :
              \E i \in DOMAIN call.result : call.result[i] \in AllowedLines(call, j)

\* C11 witness: the left knee is off by exactly the tolerance and gets no
\* instruction, the right knee is 15.5 degrees short and is told to increase by 16
C11_Witness ==
    /\ call.op = "generatePoseFeedback"
    /\ call.tolerance = Num(15)
    /\ call.reference = [leftKnee |-> Num(90), rightKnee |-> Q(211, 2)]
    /\ call.detected = [leftKnee |-> Num(75), rightKnee |-> Num(90)]
    /\ call.result = <<"right Knee: Increase angle by ~16°">>

-----------------------------------------------------------------------------
(* The mock detection interval of PoseCamera handing frames to onPoseFrame *)

\* number of operations in one behaviour of the camera
MaxTicks == 2

\* the mounted component whose frames are recorded
CameraSessions == {"A"}

\* frames the detector produces: a lone nose, or a whole standing person
CameraFrames == SessionFrames \cup {PoseFrame(Standing, EmptyMap)}

CameraConfigs == {c \in Configs : c.smoothingFactor = Q(1, 2)}

\* values of Math.random(): in [0, 1)
RandomValues == {Zero, Q(999, 1000)}

\* the interval callback of session s: createPoseData, then onPoseFrame
PoseFrameTick(s, landmarks, config, random) ==
    \E r \in {createPoseData(smootherInstance, currentAlpha, landmarks, config,
                             random, Num(nCalls))} :
        /\ nCalls < MaxTicks
        /\ smootherInstance' = r.instance
        /\ currentAlpha' = r.currentAlpha
        /\ call' = [op |-> "createPoseData", landmarks |-> landmarks,
                    config |-> config, result |-> r.result]
        /\ prevOp' = Summary(call)
        /\ nCalls' = nCalls + 1
        /\ fed' = [fed EXCEPT ![s] = Append(@, [landmarks |-> landmarks, config |-> config])]
        /\ got' = [got EXCEPT ![s] = Append(@, r.result)]

\* some other caller of the module runs applySmoothing between two frames
CameraApplySmoothing(landmarks, config) ==
    /\ nCalls < MaxTicks
    /\ ApplySmoothing(landmarks, config)

NextCamera ==
    \/ \E s \in CameraSessions, landmarks \in CameraFrames, config \in CameraConfigs,
          random \in RandomValues : PoseFrameTick(s, landmarks, config, random)
    \/ \E landmarks \in CameraFrames, config \in CameraConfigs :
          CameraApplySmoothing(landmarks, config)

SpecCamera == Init /\ [][NextCamera]_vars

-----------------------------------------------------------------------------
(* Properties of the camera pipeline                                       *)

\* C12: the frames handed to onPoseFrame in one session carry strictly
\* increasing frame numbers.
C12_FrameNumbersIncrease ==
    \A s \in Sessions :
        \A i, j \in DOMAIN got[s] :
            i < j => Lt(got[s][i].frameNumber, got[s][j].frameNumber)

\* the landmark list an operation of the pipeline returned
LandmarksOut(c) == IF c.op = "createPoseData" THEN c.result.landmarks ELSE c.result

\* C13: with enableSmoothing false, applySmoothing and createPoseData return
\* the landmarks they were given and leave the smoother and its history as
\* they were; with enableSmoothing true every landmark of the frame is emitted
\* by the smoother (raw when its keypoint had no history, otherwise
\* alpha*raw + (1-alpha)*stored) and is stored as the keypoint's history.
C13_SmoothingIffEnabled ==
    [][call'.op \in {"applySmoothing", "createPoseData"} =>
        IF ~call'.config.enableSmoothing
        THEN /\ LandmarksOut(call') = call'.landmarks
             /\ smootherInstance' = smootherInstance
             /\ currentAlpha' = currentAlpha
        ELSE LET hist  == HistoryFor(call'.config.smoothingFactor)
                 alpha == call'.config.smoothingFactor
                 out   == LandmarksOut(call')
             IN  /\ smootherInstance' # Null
                 /\ Len(out) = Len(call'.landmarks)
                 /\ \A i \in DOMAIN call'.landmarks :
                       LET raw == call'.landmarks[i]
                       IN  /\ smootherInstance'.previousLandmarks[raw.name] = out[i]
                           /\ out[i].x =
                                 IF raw.name \in DOMAIN hist
                                 THEN Add(Mul(alpha, raw.x),
                                          Mul(Sub(One, alpha), hist[raw.name].x))
                                 ELSE raw.x]_vars

\* C13 witness: the smoother holds a nose at x = 1, then createPoseData with
\* smoothing disabled is given a nose at x = 0, returns it at x = 0 and the
\* smoother still holds the nose at x = 1
C13_Witness ==
    /\ call.op = "createPoseData"
    /\ ~call.config.enableSmoothing
    /\ Len(call.landmarks) = 1
    /\ call.landmarks[1].x = Zero
    /\ call.result.landmarks = call.landmarks
    /\ smootherInstance # Null
    /\ "nose" \in DOMAIN smootherInstance.previousLandmarks
    /\ smootherInstance.previousLandmarks["nose"].x = One

-----------------------------------------------------------------------------
(* One session streaming frames of one keypoint through applySmoothing     *)

\* frames fed before the landmark stands still
MaxWarmup == 1

\* frames fed while the landmark stands still
MaxHold == 9

\* the session of the stream
StreamSession == "A"

\* a detection with a coordinate that is not a number
NaNLandmark == MkLandmark("nose", NaN, Q(1, 2), Zero, Q(9, 10), TRUE)

StreamFrames == SessionFrames \cup {<<NaNLandmark>>}

\* config.smoothingFactor of the session
StreamFactors == {Zero, Q(1, 4), Q(1, 2), One}

InitStream ==
    /\ smootherInstance = Null
    /\ currentAlpha = Q(1, 2)
    /\ \E factor \in StreamFactors :
          call = [op |-> "mount", static |-> FALSE,
                  config |-> [enableSmoothing |-> TRUE, smoothingFactor |-> factor]]
    /\ prevOp = [op |-> "none", names |-> {}]
    /\ nCalls = 0
    /\ fed = [s \in Sessions |-> <<>>]
    /\ got = [s \in Sessions |-> <<>>]

\* the session runs applySmoothing(landmarks, config) on its next frame
StreamCall(landmarks, static) ==
    LET r == applySmoothing(smootherInstance, currentAlpha, landmarks, call.config)
    IN  /\ smootherInstance' = r.instance
        /\ currentAlpha' = r.currentAlpha
        /\ call' = [op |-> "applySmoothing", landmarks |-> landmarks,
                    config |-> call.config, result |-> r.result, static |-> static]
        /\ prevOp' = Summary(call)
        /\ nCalls' = nCalls + 1
        /\ fed' = [fed EXCEPT ![StreamSession] =
                      Append(@, [landmarks |-> landmarks, config |-> call.config])]
        /\ got' = [got EXCEPT ![StreamSession] = Append(@, r.result)]

\* a frame of the moving subject
Feed(landmarks) ==
    /\ ~call.static
    /\ nCalls < MaxWarmup
    /\ StreamCall(landmarks, FALSE)

\* a frame of the subject standing still: the same landmarks as the frame before
\* once it stands still
Hold(landmarks) ==
    /\ call.static => landmarks = call.landmarks
    /\ nCalls < MaxWarmup + MaxHold
    /\ StreamCall(landmarks, TRUE)

NextStream ==
    \/ \E landmarks \in StreamFrames : Feed(landmarks)
    \/ \E landmarks \in StreamFrames : Hold(landmarks)

SpecStream == InitStream /\ [][NextStream]_vars

\* the interval timer fires: one more frame has gone through applySmoothing
FrameDelivered ==
    /\ nCalls < MaxWarmup + MaxHold
    /\ nCalls' = nCalls + 1

\* the detection interval keeps delivering frames
SpecStreamLive == SpecStream /\ WF_nCalls(FrameDelivered)

-----------------------------------------------------------------------------
(* Properties of the smoothing factor                                      *)

\* x, y and (when present) z are numbers
FiniteCoords(l) ==
    /\ IsFinite(l.x)
    /\ IsFinite(l.y)
    /\ l.z # UNDEF => IsFinite(l.z)

\* |a - b| as a fraction, for numbers a and b
Distance(a, b) == <<IAbs(a[1] * b[2] - b[1] * a[2]), a[2] * b[2]>>

\* fraction p is less than fraction q (positive denominators)
Less(p, q) ==
    LET g == GCD(p[2], q[2])
    IN  p[1] * (q[2] \div g) < q[1] * (p[2] \div g)

\* factors to compare the session's factor with
Weights == {Zero, Q(1, 4), Q(1, 2), Q(3, 4), One}

\* a larger factor gives the raw frame more weight: the output is the raw
\* value weighted alpha plus the stored value weighted 1 - alpha, and a smoother
\* with a larger factor would have emitted a value closer to the raw one
RawWeightGrows(alpha, prev, raw, out) ==
    /\ out.x = Add(Mul(alpha, raw.x), Mul(Sub(One, alpha), prev.x))
    /\ \A beta \in Weights :
          Lt(alpha, beta) =>
              LET other == SmoothLandmark(beta, prev, raw)
              IN  IF prev.x = raw.x THEN other.x = out.x
                  ELSE Less(Distance(other.x, raw.x), Distance(out.x, raw.x))

\* C14 as claimed: at alpha = 1 every landmark is emitted with its raw
\* coordinates on every frame, and a larger alpha gives the raw frame more
\* weight relative to the stored value.
C14_RawFrameWeight ==
    [][SmoothingRan(call') =>
        LET hist  == HistoryFor(call'.config.smoothingFactor)
            alpha == smootherInstance'.alpha
        IN  \A i \in DOMAIN call'.landmarks :
               LET raw == call'.landmarks[i]
                   out == call'.result[i]
               IN  /\ alpha = One => Coords(out) = Coords(raw)
                   /\ (/\ raw.name \in DOMAIN hist
                       /\ FiniteCoords(raw)
                       /\ FiniteCoords(hist[raw.name]))
                          => RawWeightGrows(alpha, hist[raw.name], raw, out)]_vars

\* C14 as amended: at alpha = 1 every landmark whose keypoint has no stored
\* value, or a stored value with finite coordinates, is emitted with its raw
\* coordinates (a stored NaN coordinate comes out NaN even at alpha = 1), and
\* a larger alpha gives the raw frame more weight relative to the stored value.
C14_RawFrameWeightFinite ==
    [][SmoothingRan(call') =>
        LET hist  == HistoryFor(call'.config.smoothingFactor)
            alpha == smootherInstance'.alpha
        IN  \A i \in DOMAIN call'.landmarks :
               LET raw == call'.landmarks[i]
                   out == call'.result[i]
               IN  /\ (/\ alpha = One
                       /\ raw.name \in DOMAIN hist => FiniteCoords(hist[raw.name]))
                          => Coords(out) = Coords(raw)
                   /\ (/\ alpha = One
                       /\ raw.name \in DOMAIN hist
                       /\ IsNaN(hist[raw.name].x)) => IsNaN(out.x)
                   /\ (/\ raw.name \in DOMAIN hist
                       /\ FiniteCoords(raw)
                       /\ FiniteCoords(hist[raw.name]))
                          => RawWeightGrows(alpha, hist[raw.name], raw, out)]_vars

\* C14 witness: at factor 1 the nose went from x = 1 to x = 0 and came out at 0
C14_Witness ==
    /\ call.op = "applySmoothing"
    /\ call.config.smoothingFactor = One
    /\ Len(fed[StreamSession]) = 2
    /\ fed[StreamSession][1].landmarks[1].x = One
    /\ fed[StreamSession][2].landmarks[1].x = Zero
    /\ got[StreamSession][2][1].x = Zero

\* C15: at smoothingFactor 0 every landmark is emitted at its raw position on
\* every frame, and a higher smoothingFactor smooths more: it leaves the output
\* at least as far from the raw position.
C15_DocumentedFactor ==
    [][SmoothingRan(call') =>
        LET hist  == HistoryFor(call'.config.smoothingFactor)
            alpha == call'.config.smoothingFactor
        IN  \A i \in DOMAIN call'.landmarks :
               LET raw == call'.landmarks[i]
                   out == call'.result[i]
               IN  /\ alpha = Zero => Coords(out) = Coords(raw)
                   /\ (/\ raw.name \in DOMAIN hist
                       /\ FiniteCoords(raw)
                       /\ FiniteCoords(hist[raw.name]))
                          => \A beta \in Weights :
                                Lt(alpha, beta) =>
                                    ~Less(Distance(SmoothLandmark(beta, hist[raw.name], raw).x,
                                                   raw.x),
                                          Distance(out.x, raw.x))]_vars

\* how close the output has to come to the raw value
ConvergenceTolerance == Q(1, 10)

\* a coordinate of the output is within the tolerance of the raw coordinate
Near(out, raw) ==
    IF raw = UNDEF \/ out = UNDEF THEN out = raw
    ELSE /\ IsFinite(out)
         /\ IsFinite(raw)
         /\ ~Less(ConvergenceTolerance, Distance(out, raw))

\* the landmark stands still and every output of the latest frame is near it
Converged ==
    /\ call.op = "applySmoothing"
    /\ call.static
    /\ \A i \in DOMAIN call.landmarks :
          /\ Near(call.result[i].x, call.landmarks[i].x)
          /\ Near(call.result[i].y, call.landmarks[i].y)
          /\ Near(call.result[i].z, call.landmarks[i].z)

\* the session's factor is in (0, 1]
FactorInRange ==
    /\ Gt(call.config.smoothingFactor, Zero)
    /\ Le(call.config.smoothingFactor, One)

\* a stored coordinate is not a number
Poisoned ==
    /\ smootherInstance # Null
    /\ \E n \in DOMAIN smootherInstance.previousLandmarks :
          ~FiniteCoords(smootherInstance.previousLandmarks[n])

\* once near the raw value, the output of a still landmark stays near it
StaysConverged == [][(Converged /\ call'.static) => Converged']_vars

-----------------------------------------------------------------------------
(* Confidence and visibility verdicts on one frame                         *)

\* how many keypoints of a frame are degraded
MaxHidden == 3

\* the position of a keypoint in the detector's list
IndexOf(name) == CHOOSE i \in DOMAIN KeypointOrder : KeypointOrder[i] = name

BadModeOrder == << "absent", "hidden", "low", "edge" >>

\* a bad mode for each keypoint of D, neighbours in the list getting different ones
RotatedModes(D, shift) ==
    [n \in D |-> BadModeOrder[((IndexOf(n) + shift) % Len(BadModeOrder)) + 1]]

\* the standing person with at most MaxHidden keypoints degraded, and the
\* short frames fed to the smoother
VisibilityFrames ==
    {PoseFrame(Standing, RotatedModes(D, shift)) :
        D \in KeypointSets(MaxHidden), shift \in 0 .. (Len(BadModeOrder) - 1)}
    \cup Frames

\* the bodyPart argument
BodyParts == {"head", "torso", "arms", "legs"}

InitVisibility ==
    /\ smootherInstance = Null
    /\ currentAlpha = Q(1, 2)
    /\ \E landmarks \in VisibilityFrames :
          call = [op |-> "input", landmarks |-> landmarks]
    /\ prevOp = [op |-> "none", names |-> {}]
    /\ nCalls = 0
    /\ fed = [s \in Sessions |-> <<>>]
    /\ got = [s \in Sessions |-> <<>>]

\* a caller runs calculatePoseConfidence(landmarks)
CalculatePoseConfidence ==
    /\ call.op = "input"
    /\ call' = [op |-> "calculatePoseConfidence", landmarks |-> call.landmarks,
                result |-> calculatePoseConfidence(call.landmarks)]
    /\ prevOp' = Summary(call)
    /\ nCalls' = nCalls + 1
    /\ UNCHANGED <<smootherInstance, currentAlpha, fed, got>>

\* a caller runs isPersonFullyVisible(landmarks)
IsPersonFullyVisible ==
    /\ call.op = "input"
    /\ call' = [op |-> "isPersonFullyVisible", landmarks |-> call.landmarks,
                result |-> isPersonFullyVisible(call.landmarks)]
    /\ prevOp' = Summary(call)
    /\ nCalls' = nCalls + 1
    /\ UNCHANGED <<smootherInstance, currentAlpha, fed, got>>

\* a caller runs isBodyPartVisible(landmarks, bodyPart)
IsBodyPartVisible(bodyPart) ==
    /\ call.op = "input"
    /\ call' = [op |-> "isBodyPartVisible", landmarks |-> call.landmarks,
                bodyPart |-> bodyPart,
                result |-> isBodyPartVisible(call.landmarks, bodyPart)]
    /\ prevOp' = Summary(call)
    /\ nCalls' = nCalls + 1
    /\ UNCHANGED <<smootherInstance, currentAlpha, fed, got>>

NextVisibility ==
    \/ CalculatePoseConfidence
    \/ IsPersonFullyVisible
    \/ \E bodyPart \in BodyParts : IsBodyPartVisible(bodyPart)

SpecVisibility == InitVisibility /\ [][NextVisibility]_vars

-----------------------------------------------------------------------------
(* Properties of the confidence and visibility verdicts                    *)

\* the keypoints of a set that are in the list, visible and above 0.5
QualifyingOf(landmarks, names) == {n \in names : Qualifies(landmarks, n)}

\* the seven critical keypoints
CriticalKeypoints ==
    { "nose", "left_shoulder", "right_shoulder", "left_hip", "right_hip",
      "left_knee", "right_knee" }

\* C17: isPersonFullyVisible is true exactly when at least 5 of the 7 critical
\* keypoints are in the list, visible and of confidence above 0.5; what the
\* other keypoints are does not enter.
C17_FiveOfSeven ==
    call.op = "isPersonFullyVisible" =>
        (call.result = TRUE
            <=> Cardinality(QualifyingOf(call.landmarks, CriticalKeypoints)) >= 5)

\* C17 witness: exactly 5 critical keypoints qualify, a keypoint that is not
\* critical does not, and the verdict is true
C17_Witness ==
    /\ call.op = "isPersonFullyVisible"
    /\ Cardinality(QualifyingOf(call.landmarks, CriticalKeypoints)) = 5
    /\ ~Qualifies(call.landmarks, "left_wrist")
    /\ call.result = TRUE

\* the indexes of the landmarks marked visible
VisibleIndexes(landmarks) == {i \in DOMAIN landmarks : landmarks[i].isVisible}

\* the sum, in thousandths, of the confidences at the given indexes
RECURSIVE ConfidenceThousandths(_, _)
ConfidenceThousandths(landmarks, indexes) ==
    IF indexes = {} THEN 0
    ELSE LET i == CHOOSE k \in indexes : TRUE
         IN  (landmarks[i].confidence[1] * 1000) \div landmarks[i].confidence[2]
                + ConfidenceThousandths(landmarks, indexes \ {i})

\* C18: calculatePoseConfidence is the sum of the confidences of the landmarks
\* marked visible divided by their number, and 0 when the list is empty or no
\* landmark is marked visible; invisible landmarks do not enter.
C18_MeanOfVisible ==
    call.op = "calculatePoseConfidence" =>
        LET V == VisibleIndexes(call.landmarks)
        IN  IF V = {} THEN call.result = Zero
            ELSE /\ call.result[2] > 0
                 /\ call.result[1] * 1000 * Cardinality(V)
                        = ConfidenceThousandths(call.landmarks, V) * call.result[2]

\* C18 witness: a visible landmark of confidence 0.9 and an invisible one of
\* confidence 0.8 give 0.9
C18_Witness ==
    /\ call.op = "calculatePoseConfidence"
    /\ Len(call.landmarks) = 2
    /\ \E i, k \in DOMAIN call.landmarks :
          /\ call.landmarks[i].isVisible
          /\ call.landmarks[i].confidence = Q(9, 10)
          /\ ~call.landmarks[k].isVisible
          /\ call.landmarks[k].confidence = Q(4, 5)
    /\ call.result = Q(9, 10)

\* the keypoints of each region
RegionKeypoints ==
    [ head  |-> {"nose", "left_eye", "right_eye"},
      torso |-> {"left_shoulder", "right_shoulder", "left_hip", "right_hip"},
      arms  |-> {"left_elbow", "right_elbow", "left_wrist", "right_wrist"},
      legs  |-> {"left_knee", "right_knee", "left_ankle", "right_ankle"} ]

\* C20: for head, torso, arms and legs, isBodyPartVisible is true exactly when
\* the number of the region's keypoints that are in the list, visible and of
\* confidence above 0.5 is at least half the size of the region's set.
C20_HalfOfRegion ==
    call.op = "isBodyPartVisible" =>
        (call.result = TRUE
            <=> 2 * Cardinality(QualifyingOf(call.landmarks, RegionKeypoints[call.bodyPart]))
                    >= Cardinality(RegionKeypoints[call.bodyPart]))

\* C20 witness: one of the three head keypoints qualifies, which is less than
\* half of them, and the head is not visible
C20_Witness ==
    /\ call.op = "isBodyPartVisible"
    /\ call.bodyPart = "head"
    /\ Cardinality(QualifyingOf(call.landmarks, RegionKeypoints.head)) = 1
    /\ Cardinality(QualifyingOf(call.landmarks, RegionKeypoints.arms)) = 3
    /\ call.result = FALSE

-----------------------------------------------------------------------------
(* The two calculateAngle functions applied to three points                *)

\* a coordinate of a point: on a grid of step 1/2, or not a number
GridCoordinates == {Zero, Q(1, 2), One, NaN}

GridPoints == [x : GridCoordinates, y : GridCoordinates]

InitGeometry ==
    /\ smootherInstance = Null
    /\ currentAlpha = Q(1, 2)
    /\ \E p1 \in GridPoints, p2 \in GridPoints, p3 \in GridPoints :
          call = [op |-> "input", p1 |-> p1, p2 |-> p2, p3 |-> p3]
    /\ prevOp = [op |-> "none", names |-> {}]
    /\ nCalls = 0
    /\ fed = [s \in Sessions |-> <<>>]
    /\ got = [s \in Sessions |-> <<>>]

\* a caller runs calculateAngle(p1, p2, p3) of poseProcessing.ts
CalculateAngle ==
    /\ call.op = "input"
    /\ call' = [op |-> "calculateAngle", p1 |-> call.p1, p2 |-> call.p2,
                p3 |-> call.p3, result |-> calculateAngle(call.p1, call.p2, call.p3)]
    /\ prevOp' = [op |-> "input", names |-> {}]
    /\ nCalls' = nCalls + 1
    /\ UNCHANGED <<smootherInstance, currentAlpha, fed, got>>

\* a caller runs calculateAngle(point1, point2, point3) of poseDetection.ts
CalculateAngleDetection ==
    /\ call.op = "input"
    /\ call' = [op |-> "calculateAngle_poseDetection", p1 |-> call.p1, p2 |-> call.p2,
                p3 |-> call.p3,
                result |-> calculateAngle_poseDetection(call.p1, call.p2, call.p3)]
    /\ prevOp' = [op |-> "input", names |-> {}]
    /\ nCalls' = nCalls + 1
    /\ UNCHANGED <<smootherInstance, currentAlpha, fed, got>>

NextGeometry ==
    \/ CalculateAngle
    \/ CalculateAngleDetection

SpecGeometry == InitGeometry /\ [][NextGeometry]_vars

-----------------------------------------------------------------------------
(* Properties of calculateAngle                                            *)

\* the result is a number from 0 to 180
InDegreeRange(r) ==
    /\ r[2] > 0
    /\ 0 <= r[1]
    /\ r[1] <= 180 * r[2]

\* a === b for numbers
StrictEquals(a, b) == ~IsNaN(a) /\ ~IsNaN(b) /\ a = b

\* what the called function returns for the points in the opposite order
Mirrored(c) ==
    IF c.op = "calculateAngle"
    THEN calculateAngle(c.p3, c.p2, c.p1)
    ELSE calculateAngle_poseDetection(c.p3, c.p2, c.p1)

FinitePoint(p) == IsFinite(p.x) /\ IsFinite(p.y)

\* C19 as claimed: for any three points, either calculateAngle returns a number
\* from 0 to 180, and the same number for the points in the opposite order.
C19_BoundedSymmetric ==
    call.op \in {"calculateAngle", "calculateAngle_poseDetection"} =>
        /\ InDegreeRange(call.result)
        /\ StrictEquals(call.result, Mirrored(call))

\* C19 as amended: for any three points with finite coordinates, collinear and
\* coincident ones included, either calculateAngle returns a number from 0 to
\* 180, and the same number for the points in the opposite order; a NaN
\* coordinate gives NaN.
C19_BoundedSymmetricFinite ==
    call.op \in {"calculateAngle", "calculateAngle_poseDetection"} =>
        IF FinitePoint(call.p1) /\ FinitePoint(call.p2) /\ FinitePoint(call.p3)
        THEN /\ InDegreeRange(call.result)
             /\ StrictEquals(call.result, Mirrored(call))
        ELSE IsNaN(call.result)

\* C19 witness: from the centre of the grid the outer points lie at 135 and at
\* -135 degrees; the difference of 270 is folded to 90
C19_Witness ==
    /\ call.op = "calculateAngle"
    /\ call.p2 = [x |-> Q(1, 2), y |-> Q(1, 2)]
    /\ call.p1 = [x |-> Zero, y |-> One]
    /\ call.p3 = [x |-> Zero, y |-> Zero]
    /\ call.result = Num(90)

-----------------------------------------------------------------------------
(* One session feeding frames of two keypoints through one smoother        *)

\* number of operations in one behaviour of the session
MaxFrames == 3

\* frames of the nose, of the left knee, and of both in either order; the nose
\* comes without depth, with depth, with x = NaN and with z = NaN
KeypointFrames ==
    { <<MkLandmark("nose", One, Zero, UNDEF, Q(9, 10), TRUE)>>,
      <<MkLandmark("nose", Zero, One, Zero, Q(2, 5), FALSE)>>,
      <<NaNLandmark>>,
      <<MkLandmark("nose", Q(1, 2), Q(1, 2), NaN, Q(9, 10), TRUE)>>,
      <<MkLandmark("left_knee", Q(1, 2), Q(1, 4), One, Q(1, 2), TRUE)>>,
      <<MkLandmark("left_knee", One, One, Zero, Q(4, 5), FALSE)>>,
      <<MkLandmark("nose", One, Zero, UNDEF, Q(9, 10), TRUE),
        MkLandmark("left_knee", Q(1, 2), Q(1, 4), One, Q(1, 2), TRUE)>>,
      <<MkLandmark("left_knee", One, One, Zero, Q(4, 5), FALSE),
        MkLandmark("nose", Zero, One, Zero, Q(2, 5), FALSE)>>,
      <<NaNLandmark,
        MkLandmark("left_knee", Q(1, 2), Q(1, 4), One, Q(1, 2), TRUE)>> }

\* config.smoothingFactor of the session: in range, below 0 and above 1
KeypointFactors == {Q(-1, 2), Zero, Q(1, 2), One, Q(3, 2)}

InitKeypoints ==
    /\ smootherInstance = Null
    /\ currentAlpha = Q(1, 2)
    /\ \E factor \in KeypointFactors :
          call = [op |-> "mount",
                  config |-> [enableSmoothing |-> TRUE, smoothingFactor |-> factor]]
    /\ prevOp = [op |-> "none", names |-> {}]
    /\ nCalls = 0
    /\ fed = [s \in Sessions |-> <<>>]
    /\ got = [s \in Sessions |-> <<>>]

\* the session runs applySmoothing(landmarks, config) on its next frame
KeypointsApplySmoothing(landmarks) ==
    \E r \in {applySmoothing(smootherInstance, currentAlpha, landmarks, call.config)} :
        /\ nCalls < MaxFrames
        /\ smootherInstance' = r.instance
        /\ currentAlpha' = r.currentAlpha
        /\ call' = [op |-> "applySmoothing", landmarks |-> landmarks,
                    config |-> call.config, result |-> r.result]
        /\ prevOp' = Summary(call)
        /\ nCalls' = nCalls + 1
        /\ fed' = [fed EXCEPT ![StreamSession] =
                      Append(@, [op |-> "applySmoothing", landmarks |-> landmarks,
                                 config |-> call.config])]
        /\ got' = [got EXCEPT ![StreamSession] = Append(@, r.result)]

\* the session runs getSmoother(config.smoothingFactor).reset()
KeypointsReset ==
    \E g \in {getSmoother(smootherInstance, currentAlpha, call.config.smoothingFactor)} :
        /\ nCalls < MaxFrames
        /\ smootherInstance' = reset(g.instance)
        /\ currentAlpha' = g.currentAlpha
        /\ call' = [op |-> "reset", alpha |-> call.config.smoothingFactor,
                    config |-> call.config,
                    cleared |-> DOMAIN g.instance.previousLandmarks]
        /\ prevOp' = Summary(call)
        /\ nCalls' = nCalls + 1
        /\ fed' = [fed EXCEPT ![StreamSession] =
                      Append(@, [op |-> "reset", landmarks |-> <<>>,
                                 config |-> call.config])]
        /\ got' = [got EXCEPT ![StreamSession] = Append(@, <<>>)]

NextKeypoints ==
    \/ \E landmarks \in KeypointFrames : KeypointsApplySmoothing(landmarks)
    \/ KeypointsReset

SpecKeypoints == InitKeypoints /\ [][NextKeypoints]_vars

-----------------------------------------------------------------------------
(* Properties of the per-keypoint history                                  *)

\* the landmark of keypoint n in a list, undefined when the list has none
LandmarkOf(landmarks, n) ==
    LET hits == {i \in DOMAIN landmarks : landmarks[i].name = n}
    IN  IF hits = {} THEN UNDEF
        ELSE landmarks[CHOOSE i \in hits : \A j \in hits : i <= j]

CoordinateNames == {"x", "y", "z"}

Coordinate(l, c) == CASE c = "x" -> l.x [] c = "y" -> l.y [] c = "z" -> l.z

\* the operations of the session so far, and what they returned
Trace == fed[StreamSession]

Outputs == got[StreamSession]

\* no reset() among operations i .. j of the session
NoResetBetween(i, j) == \A k \in i .. j : Trace[k].op # "reset"

\* frame i emitted NaN in coordinate c of keypoint n, frame j comes later with
\* no reset() in between and carries the keypoint with a number in c
NaNThenNumber(n, c, i, j) ==
    /\ i < j
    /\ NoResetBetween(i, j)
    /\ LandmarkOf(Outputs[i], n) # UNDEF
    /\ Coordinate(LandmarkOf(Outputs[i], n), c) = NaN
    /\ LandmarkOf(Trace[j].landmarks, n) # UNDEF
    /\ Coordinate(LandmarkOf(Trace[j].landmarks, n), c) # UNDEF
    /\ IsFinite(Coordinate(LandmarkOf(Trace[j].landmarks, n), c))

\* every frame after i up to j that carries keypoint n carries a depth for it
DepthCarried(n, i, j) ==
    \A k \in (i + 1) .. j :
        LandmarkOf(Trace[k].landmarks, n) # UNDEF
            => LandmarkOf(Trace[k].landmarks, n).z # UNDEF

\* the operations of the session with every frame cut down to keypoint n
Project(trace, n) ==
    [i \in DOMAIN trace |->
        [trace[i] EXCEPT !.landmarks = SelectSeq(@, LAMBDA l : l.name = n)]]

RECURSIVE ReplayFrom(_, _, _, _, _)
ReplayFrom(instance, curAlpha, trace, i, outs) ==
    IF i > Len(trace) THEN outs
    ELSE IF trace[i].op = "reset"
    THEN LET g == getSmoother(instance, curAlpha, trace[i].config.smoothingFactor)
         IN  ReplayFrom(reset(g.instance), g.currentAlpha, trace, i + 1,
                        Append(outs, <<>>))
    ELSE LET r == applySmoothing(instance, curAlpha, trace[i].landmarks, trace[i].config)
         IN  ReplayFrom(r.instance, r.currentAlpha, trace, i + 1, Append(outs, r.result))

\* what a sequence of operations returns when run from a freshly loaded module
Replay(trace) == ReplayFrom(Null, Q(1, 2), trace, 1, <<>>)

\* every keypoint comes out as it would if the frames held no other keypoint
OtherKeypointsUnaffected ==
    \A n \in SmoothNames :
        LET alone == Replay(Project(Trace, n))
        IN  \A j \in DOMAIN Trace :
                LandmarkOf(Outputs[j], n) = LandmarkOf(alone[j], n)

\* C21 as claimed: once smooth() has emitted NaN in a coordinate of a keypoint,
\* every later output of that coordinate of that keypoint is NaN, whatever
\* numbers the raw frames hold and whatever the factor, until reset(); the
\* outputs of the other keypoints are what they would be without it.
C21_NaNPoisons ==
    /\ \A n \in SmoothNames, c \in CoordinateNames :
          \A i, j \in DOMAIN Trace :
              NaNThenNumber(n, c, i, j)
                  => Coordinate(LandmarkOf(Outputs[j], n), c) = NaN
    /\ OtherKeypointsUnaffected

\* C21 as amended: the same for x and y; for z as long as every frame that
\* carried the keypoint since carried a depth (a frame without depth stores an
\* undefined depth, and the next depth comes out raw).
C21_NaNPoisonsPlane ==
    /\ \A n \in SmoothNames, c \in CoordinateNames :
          \A i, j \in DOMAIN Trace :
              (NaNThenNumber(n, c, i, j) /\ (c = "z" => DepthCarried(n, i, j)))
                  => Coordinate(LandmarkOf(Outputs[j], n), c) = NaN
    /\ OtherKeypointsUnaffected

\* C21 witness: at factor 1 the nose came with x = NaN next to the left knee,
\* the next frame held the nose at x = 0 and the knee at x = 1; the nose came
\* out with x = NaN and the knee at 1
C21_Witness ==
    /\ call.op = "applySmoothing"
    /\ call.config.smoothingFactor = One
    /\ Len(Trace) = 2
    /\ Len(Trace[1].landmarks) = 2
    /\ Trace[1].landmarks[1] = NaNLandmark
    /\ LandmarkOf(Trace[2].landmarks, "nose") # UNDEF
    /\ LandmarkOf(Trace[2].landmarks, "nose").x = Zero
    /\ LandmarkOf(Trace[2].landmarks, "left_knee") # UNDEF
    /\ LandmarkOf(Outputs[2], "nose").x = NaN
    /\ LandmarkOf(Outputs[2], "left_knee").x = One

\* the landmark smooth() emitted last for keypoint n since the latest reset(),
\* undefined when it has emitted none
LastEmitted(n) ==
    LET hits == {i \in DOMAIN Outputs :
                    /\ NoResetBetween(i, Len(Trace))
                    /\ LandmarkOf(Outputs[i], n) # UNDEF}
    IN  IF hits = {} THEN UNDEF
        ELSE LandmarkOf(Outputs[CHOOSE i \in hits : \A j \in hits : j <= i], n)

\* C22: when a keypoint that has stored history is absent from the raw frame,
\* smooth() emits no landmark for it and leaves its stored history as it was;
\* when the keypoint comes back it is averaged against the landmark emitted
\* before the gap.
C22_MissingKeypoint ==
    [][SmoothingRan(call') =>
        \A n \in SmoothNames :
            LET last  == LastEmitted(n)
                alpha == smootherInstance'.alpha
                raw   == LandmarkOf(call'.landmarks, n)
                out   == LandmarkOf(call'.result, n)
            IN  last # UNDEF =>
                    IF raw = UNDEF
                    THEN /\ out = UNDEF
                         /\ MapGet(smootherInstance'.previousLandmarks, n) = last
                         /\ MapGet(smootherInstance.previousLandmarks, n) = last
                    ELSE /\ out # UNDEF
                         /\ out.x = Add(Mul(alpha, raw.x), Mul(Sub(One, alpha), last.x))
                         /\ out.y = Add(Mul(alpha, raw.y), Mul(Sub(One, alpha), last.y))]_vars

\* C22 witness: at factor 1/2 the nose was fed at x = 1, then a frame held only
\* the left knee and gave back only the left knee, then the nose came back at
\* x = 0 and was emitted at 1/2
C22_Witness ==
    /\ call.op = "applySmoothing"
    /\ call.config.smoothingFactor = Q(1, 2)
    /\ Len(Trace) = 3
    /\ Names(Trace[1].landmarks) = {"nose"}
    /\ Trace[1].landmarks[1].x = One
    /\ Names(Trace[2].landmarks) = {"left_knee"}
    /\ Names(Outputs[2]) = {"left_knee"}
    /\ Names(Trace[3].landmarks) = {"nose"}
    /\ Trace[3].landmarks[1].x = Zero
    /\ Outputs[3][1].x = Q(1, 2)

\* C23: every landmark smooth() emits carries the name, confidence and
\* isVisible of the raw landmark of the current frame, not those of the stored
\* landmark, and the output list has the length and the name order of the input.
C23_OnlyGeometry ==
    [][SmoothingRan(call') =>
        /\ Len(call'.result) = Len(call'.landmarks)
        /\ \A i \in DOMAIN call'.landmarks :
              /\ call'.result[i].name = call'.landmarks[i].name
              /\ call'.result[i].confidence = call'.landmarks[i].confidence
              /\ call'.result[i].isVisible = call'.landmarks[i].isVisible
              /\ DOMAIN call'.result[i] = DOMAIN call'.landmarks[i]]_vars

\* C23 witness: the nose was stored visible with confidence 0.9 at x = 1, the
\* next frame held it occluded with confidence 0.4 at x = 0; it was emitted at
\* x = 1/2, occluded, with confidence 0.4
C23_Witness ==
    /\ call.op = "applySmoothing"
    /\ call.config.smoothingFactor = Q(1, 2)
    /\ Len(Trace) = 2
    /\ Names(Trace[1].landmarks) = {"nose"}
    /\ Trace[1].landmarks[1].confidence = Q(9, 10)
    /\ Trace[1].landmarks[1].isVisible
    /\ Names(Trace[2].landmarks) = {"nose"}
    /\ Outputs[2][1].x = Q(1, 2)
    /\ Outputs[2][1].confidence = Q(2, 5)
    /\ ~Outputs[2][1].isVisible

\* the operations of the session with the smoothing factor replaced
WithFactor(trace, factor) ==
    [i \in DOMAIN trace |-> [trace[i] EXCEPT !.config.smoothingFactor = factor]]

\* C26: a smoother created with a factor below 0 returns on every sequence of
\* frames and resets what one created with 0 returns, and a smoother created
\* with a factor above 1 what one created with 1 returns.
C26_FactorClamped ==
    /\ Lt(call.config.smoothingFactor, Zero) => Outputs = Replay(WithFactor(Trace, Zero))
    /\ Gt(call.config.smoothingFactor, One) => Outputs = Replay(WithFactor(Trace, One))

\* C26 witness: at factor -1/2 the nose went from x = 1 to x = 0 and stayed at
\* 1, as it does at factor 0
C26_Witness ==
    /\ call.op = "applySmoothing"
    /\ call.config.smoothingFactor = Q(-1, 2)
    /\ Len(Trace) = 2
    /\ Names(Trace[1].landmarks) = {"nose"}
    /\ Trace[1].landmarks[1].x = One
    /\ Names(Trace[2].landmarks) = {"nose"}
    /\ Trace[2].landmarks[1].x = Zero
    /\ Outputs[2][1].x = One

-----------------------------------------------------------------------------
(* calculateJointAngles applied to torsos                                  *)

\* the four keypoints the spine is built from
TorsoKeypoints == {"left_shoulder", "right_shoulder", "left_hip", "right_hip"}

\* torsos, in tenths of the frame: hips to the side of the shoulders by as much
\* as they are below, shoulders on the top edge of the frame, shoulders and
\* hips at uneven heights and widths, hips above the shoulders, hips level
\* with the shoulders, hips twice as far to the side as below
Torsos ==
    { Standing,
      [Standing EXCEPT !.left_hip = <<7, 5>>, !.right_hip = <<9, 5>>],
      [Standing EXCEPT !.left_shoulder = <<4, 0>>, !.right_shoulder = <<6, 0>>],
      [Standing EXCEPT !.left_shoulder = <<3, 1>>, !.right_shoulder = <<7, 3>>,
                       !.left_hip = <<6, 4>>, !.right_hip = <<4, 6>>],
      [Standing EXCEPT !.left_hip = <<4, 1>>, !.right_hip = <<6, 1>>],
      [Standing EXCEPT !.left_hip = <<7, 2>>, !.right_hip = <<9, 2>>],
      [Standing EXCEPT !.left_shoulder = <<1, 2>>, !.right_shoulder = <<3, 2>>,
                       !.left_hip = <<7, 5>>, !.right_hip = <<9, 5>>] }

\* the keypoints of the limbs, which a frame of a torso does not hold
LimbKeypoints ==
    { "left_elbow", "right_elbow", "left_wrist", "right_wrist",
      "left_knee", "right_knee", "left_ankle", "right_ankle" }

\* every assignment of a bad mode to some of the torso keypoints
TorsoDegradations == UNION {[D -> BadModes] : D \in SUBSET TorsoKeypoints}

\* the landmark list of a torso: no limbs, torso keypoints degraded as given
TorsoFrame(pose, bad) ==
    PoseFrame(pose, [n \in LimbKeypoints \cup DOMAIN bad |->
                        IF n \in DOMAIN bad THEN bad[n] ELSE "absent"])

InitSpine ==
    /\ smootherInstance = Null
    /\ currentAlpha = Q(1, 2)
    /\ \/ \E pose \in Torsos, bad \in TorsoDegradations :
             call = [op |-> "input", landmarks |-> TorsoFrame(pose, bad)]
       \/ \E bad \in TorsoDegradations :
             call = [op |-> "input", landmarks |-> PoseFrame(Standing, bad)]
    /\ prevOp = [op |-> "none", names |-> {}]
    /\ nCalls = 0
    /\ fed = [s \in Sessions |-> <<>>]
    /\ got = [s \in Sessions |-> <<>>]

SpecSpine == InitSpine /\ [][NextAngles]_vars

-----------------------------------------------------------------------------
(* Properties of the spine angle                                           *)

\* the number halfway between two numbers
Halfway(a, b) == Q(a[1] * b[2] + b[1] * a[2], 2 * a[2] * b[2])

\* the point halfway between the landmarks of two keypoints
MidOf(landmarks, left, right) ==
    [x |-> Halfway(LandmarkOf(landmarks, left).x, LandmarkOf(landmarks, right).x),
     y |-> Halfway(LandmarkOf(landmarks, left).y, LandmarkOf(landmarks, right).y)]

ShoulderMidOf(landmarks) == MidOf(landmarks, "left_shoulder", "right_shoulder")

HipMidOf(landmarks) == MidOf(landmarks, "left_hip", "right_hip")

\* the hip midpoint lies directly below the shoulder midpoint
HipsBelowShoulders(landmarks) ==
    /\ HipMidOf(landmarks).x = ShoulderMidOf(landmarks).x
    /\ Lt(ShoulderMidOf(landmarks).y, HipMidOf(landmarks).y)

\* the spine is a key exactly when the four torso keypoints qualify, and then
\* it is the angle at the shoulder midpoint between the point of the same x at
\* y = 0 and the hip midpoint
SpineConstruction(c) ==
    /\ "spine" \in DOMAIN c.result
          <=> \A n \in TorsoKeypoints : Qualifies(c.landmarks, n)
    /\ "spine" \in DOMAIN c.result =>
          c.result.spine =
              calculateAngle([x |-> ShoulderMidOf(c.landmarks).x, y |-> Zero],
                             ShoulderMidOf(c.landmarks), HipMidOf(c.landmarks))

-----------------------------------------------------------------------------
(* Properties of calculateAngle on degenerate triples                      *)

\* a grid coordinate in halves
Halves(c) == (2 * c[1]) \div c[2]

\* the ray from the vertex to an outer point, in halves
Ray(vertex, outer) ==
    <<Halves(outer.x) - Halves(vertex.x), Halves(outer.y) - Halves(vertex.y)>>

\* the three points lie on one line, or some of them coincide
Degenerate(c) ==
    LET u == Ray(c.p2, c.p1)
        v == Ray(c.p2, c.p3)
    IN  u[1] * v[2] - u[2] * v[1] = 0

\* the angle in whole degrees between a ray of the grid and the positive x axis
AxisDegrees(ray) ==
    CASE ray[2] = 0 /\ ray[1] >= 0        -> 0
      [] ray[2] = 0 /\ ray[1] < 0         -> 180
      [] ray[1] = 0                       -> 90
      [] ray[1] > 0 /\ IAbs(ray[2]) = ray[1]      -> 45
      [] ray[1] < 0 /\ IAbs(ray[2]) = -ray[1]     -> 135
      [] ray[1] > 0 /\ 2 * IAbs(ray[2]) = ray[1]  -> 27
      [] ray[1] < 0 /\ 2 * IAbs(ray[2]) = -ray[1] -> 153
      [] ray[1] > 0 /\ IAbs(ray[2]) = 2 * ray[1]  -> 63
      [] ray[1] < 0 /\ IAbs(ray[2]) = -2 * ray[1] -> 117

DegenerateCall(c) ==
    /\ c.op = "calculateAngle"
    /\ FinitePoint(c.p1) /\ FinitePoint(c.p2) /\ FinitePoint(c.p3)
    /\ Degenerate(c)

\* C25 as claimed: for every collinear or coincident triple of points, also
\* when only one outer point coincides with the vertex, calculateAngle returns
\* 0 or 180.
C25_DegenerateFlat ==
    DegenerateCall(call) => call.result \in {Zero, Num(180)}

\* C25 as amended: calculateAngle returns a number from 0 to 180 for every
\* collinear or coincident triple: 0 or 180 when both outer points differ from
\* the vertex, 0 when both coincide with it, and, when only one coincides with
\* it, the angle between the other ray and the positive x axis.
C25_DegenerateDefined ==
    DegenerateCall(call) =>
        LET u == Ray(call.p2, call.p1)
            v == Ray(call.p2, call.p3)
        IN  /\ InDegreeRange(call.result)
            /\ (u # <<0, 0>> /\ v # <<0, 0>>) => call.result \in {Zero, Num(180)}
            /\ (u = <<0, 0>> /\ v = <<0, 0>>) => call.result = Zero
            /\ (u = <<0, 0>> /\ v # <<0, 0>>) => call.result = Num(AxisDegrees(v))
            /\ (u # <<0, 0>> /\ v = <<0, 0>>) => call.result = Num(AxisDegrees(u))

\* C25 witness: three different points on the diagonal of the grid, the vertex
\* in the middle, measure 180
C25_Witness ==
    /\ call.op = "calculateAngle"
    /\ call.p1 = [x |-> Zero, y |-> Zero]
    /\ call.p2 = [x |-> Q(1, 2), y |-> Q(1, 2)]
    /\ call.p3 = [x |-> One, y |-> One]
    /\ call.result = Num(180)

-----------------------------------------------------------------------------
(* Properties of the singleton across calls                                *)

\* C27: when applySmoothing is called with a smoothing factor different from
\* the one of the call before, the singleton is replaced by a fresh smoother:
\* every landmark of the frame comes out with its raw coordinates and nothing
\* of the old history is left; when the factor is the same the history is
\* kept, and a landmark whose keypoint is stored is averaged against it.
C27_FactorChangeDiscards ==
    [][(SmoothingRan(call) /\ SmoothingRan(call')) =>
        LET before == smootherInstance.previousLandmarks
            after  == smootherInstance'.previousLandmarks
            alpha  == call'.config.smoothingFactor
        IN  IF call.config.smoothingFactor # alpha
            THEN /\ \A i \in DOMAIN call'.landmarks :
                        Coords(call'.result[i]) = Coords(call'.landmarks[i])
                 /\ DOMAIN after = Names(call'.landmarks)
            ELSE /\ DOMAIN before \subseteq DOMAIN after
                 /\ \A i \in DOMAIN call'.landmarks :
                        LET raw == call'.landmarks[i]
                        IN  raw.name \in DOMAIN before =>
                               call'.result[i].x =
                                  Add(Mul(alpha, raw.x),
                                      Mul(Sub(One, alpha), before[raw.name].x))]_vars

\* C27 witness: one session fed the nose at x = 1 with factor 1/2, again at
\* x = 1 with factor 1, and then at x = 0 with factor 1/2 again: the last frame
\* came out at x = 0, not averaged against the stored 1
C27_Witness ==
    /\ fed["B"] = <<>>
    /\ Len(fed["A"]) = 3
    /\ fed["A"][1].config.smoothingFactor = Q(1, 2)
    /\ fed["A"][2].config.smoothingFactor = One
    /\ fed["A"][3].config.smoothingFactor = Q(1, 2)
    /\ fed["A"][1].landmarks[1].x = One
    /\ fed["A"][2].landmarks[1].x = One
    /\ fed["A"][3].landmarks[1].x = Zero
    /\ got["A"][3][1].x = Zero

-----------------------------------------------------------------------------
(* comparePoseAngles and generatePoseFeedback on the same arguments        *)

\* what a joint holds in a map that is scored and explained: undefined, whole
\* degrees, a tenth of a degree past a whole one, or NaN
AgreementAngles == {UNDEF, Num(90), Num(105), Q(1051, 10), Num(121), NaN}

AgreementMaps == UNION {[K -> AgreementAngles] : K \in SUBSET CompareJoints}

\* a map that gives every field of JointAngles the same angle
AllJoints(angle) == [k \in {JointOrder[i] : i \in DOMAIN JointOrder} |-> angle]

\* whole bodies: every joint at 90 degrees, and the same with one or two joints
\* bent further
WholeBodyMaps ==
    { AllJoints(Num(90)),
      [AllJoints(Num(90)) EXCEPT !.leftKnee = Num(106)],
      [AllJoints(Num(90)) EXCEPT !.leftKnee = Num(106), !.rightKnee = Num(106)] }

\* the tolerance argument: left out, 15 or 30 degrees, zero
AgreementTolerances == {UNDEF, Num(15), Num(30), Zero}

InitAgreement ==
    /\ smootherInstance = Null
    /\ currentAlpha = Q(1, 2)
    /\ \E detected \in AgreementMaps \cup WholeBodyMaps,
          reference \in AgreementMaps \cup WholeBodyMaps,
          tolerance \in AgreementTolerances :
          call = [op |-> "input", detected |-> detected, reference |-> reference,
                  tolerance |-> tolerance]
    /\ prevOp = [op |-> "none", names |-> {}]
    /\ nCalls = 0
    /\ fed = [s \in Sessions |-> <<>>]
    /\ got = [s \in Sessions |-> <<>>]

\* the caller, holding the score, runs generatePoseFeedback on the arguments
\* it gave to comparePoseAngles
FeedbackAfterScore ==
    /\ call.op = "comparePoseAngles"
    /\ call' = [op |-> "generatePoseFeedback", detected |-> call.detected,
                reference |-> call.reference, tolerance |-> call.tolerance,
                score |-> call.result,
                result |-> generatePoseFeedback(call.detected, call.reference,
                                                call.tolerance)]
    /\ prevOp' = [op |-> "comparePoseAngles", names |-> {}]
    /\ nCalls' = nCalls + 1
    /\ UNCHANGED <<smootherInstance, currentAlpha, fed, got>>

NextAgreement ==
    \/ ComparePoseAngles
    \/ FeedbackAfterScore

SpecAgreement == InitAgreement /\ [][NextAgreement]_vars

-----------------------------------------------------------------------------
(* Properties of score and feedback together                               *)

\* the feedback of a call whose arguments scored 100 at a tolerance of 0 or more
FullScore(c) ==
    /\ c.op = "generatePoseFeedback"
    /\ "score" \in DOMAIN c
    /\ ToleranceOf(c) >= 0
    /\ c.score = Num(100)

\* by how much joint j misses the tolerance, in hundredths of a degree
MissHundredths(c, j) ==
    LET d == SignedDifference(c, j)
    IN  (IAbs(d[1]) - ToleranceOf(c) * d[2]) * (100 \div d[2])

RECURSIVE MissSum(_, _)
MissSum(c, joints) ==
    IF joints = {} THEN 0
    ELSE LET j == CHOOSE k \in joints : TRUE
         IN  MissHundredths(c, j) + MissSum(c, joints \ {j})

\* C28 as claimed: for every detected map, reference map and tolerance of 0 or
\* more, when comparePoseAngles returns 100, generatePoseFeedback returns an
\* empty list for the same arguments.
C28_FullScoreNoFeedback == FullScore(call) => call.result = <<>>

\* C28 as amended: when comparePoseAngles returns 100, generatePoseFeedback
\* names only joints that miss the tolerance by little: over the joints it
\* names, the distances beyond the tolerance add up to at most a 200th of the
\* tolerance times the number of reference joints, which is what rounding the
\* score to a whole number hides; at tolerance 0 the list is empty.
C28_FullScoreSmallMisses ==
    FullScore(call) =>
        /\ Len(call.result) = Cardinality(OffJoints(call))
        /\ 200 * MissSum(call, OffJoints(call))
              <= 100 * ToleranceOf(call) * Cardinality(DefinedJoints(call.reference))
        /\ ToleranceOf(call) = 0 => call.result = <<>>

\* C28 witness: against a reference of 16 joints at 90 degrees, a body with the
\* left knee at 106 and the rest at 90 scores 100 at the default tolerance and
\* is told to reduce the left knee by 16
C28_Witness ==
    /\ FullScore(call)
    /\ call.tolerance = UNDEF
    /\ call.reference = AllJoints(Num(90))
    /\ call.result = <<"left Knee: Reduce angle by ~16°">>

-----------------------------------------------------------------------------
(* One camera session whose configuration carries a confidence floor       *)

\* config.minConfidence: below, at and above the floor the functions use
ConfidenceFloors == {Q(3, 10), Q(1, 2), Q(7, 10)}

\* the fields of PoseConfig that createPoseData and its callees can read
FloorConfigs ==
    [enableSmoothing : BOOLEAN, smoothingFactor : {Q(1, 2)},
     minConfidence : ConfidenceFloors]

\* a lone nose, a whole standing person, and standing people some of whose
\* keypoints have confidence 0.4 or exactly 0.5
FloorFrames ==
    SessionFrames
        \cup { PoseFrame(Standing, EmptyMap),
               PoseFrame(Standing, [left_knee |-> "low", right_hip |-> "edge"]),
               PoseFrame(Standing, [nose |-> "low", left_shoulder |-> "low",
                                    right_knee |-> "low"]) }

InitFloor ==
    /\ smootherInstance = Null
    /\ currentAlpha = Q(1, 2)
    /\ \E config \in FloorConfigs : call = [op |-> "mount", config |-> config]
    /\ prevOp = [op |-> "none", names |-> {}]
    /\ nCalls = 0
    /\ fed = [s \in Sessions |-> <<>>]
    /\ got = [s \in Sessions |-> <<>>]

\* the interval callback of the session: createPoseData with the session's
\* configuration, then onPoseFrame
FloorTick(landmarks, random) ==
    \E r \in {createPoseData(smootherInstance, currentAlpha, landmarks, call.config,
                             random, Num(nCalls))} :
        /\ nCalls < MaxTicks
        /\ smootherInstance' = r.instance
        /\ currentAlpha' = r.currentAlpha
        /\ call' = [op |-> "createPoseData", landmarks |-> landmarks,
                    config |-> call.config, result |-> r.result]
        /\ prevOp' = Summary(call)
        /\ nCalls' = nCalls + 1
        /\ fed' = [fed EXCEPT ![StreamSession] =
                      Append(@, [landmarks |-> landmarks, config |-> call.config])]
        /\ got' = [got EXCEPT ![StreamSession] = Append(@, r.result)]

NextFloor ==
    \E landmarks \in FloorFrames, random \in RandomValues : FloorTick(landmarks, random)

SpecFloor == InitFloor /\ [][NextFloor]_vars

-----------------------------------------------------------------------------
(* Properties of the confidence floor                                      *)

\* what createPoseData computes from the landmarks
Verdicts(poseData) ==
    [angles |-> poseData.angles, confidence |-> poseData.confidence,
     isPersonDetected |-> poseData.isPersonDetected]

RECURSIVE VerdictsFrom(_, _, _, _, _, _)
VerdictsFrom(instance, curAlpha, frames, floor, i, outs) ==
    IF i > Len(frames) THEN outs
    ELSE \* the same frame under a configuration that differs only in minConfidence
         LET r == createPoseData(instance, curAlpha, frames[i].landmarks,
                                 [frames[i].config EXCEPT !.minConfidence = floor],
                                 Zero, Zero)
         IN  VerdictsFrom(r.instance, r.currentAlpha, frames, floor, i + 1,
                          Append(outs, Verdicts(r.result)))

\* the verdicts of a session on the same frames with another confidence floor
VerdictsUnder(frames, floor) == VerdictsFrom(Null, Q(1, 2), frames, floor, 1, <<>>)

-----------------------------------------------------------------------------
(* A caller that writes into the landmark objects it gave and was given    *)

\* the indexes of the list smooth() returns whose landmark object is the very
\* object left in previousLandmarks: the averaging branch pushes and stores
\* one object, the first-occurrence branch pushes one copy and stores another,
\* and a later landmark of the same name replaces what an earlier one stored
SharedWithHistory(self, currentLandmarks) ==
    {i \in DOMAIN currentLandmarks :
        /\ \/ MapGet(self.previousLandmarks, currentLandmarks[i].name) # UNDEF
           \/ \E k \in 1 .. (i - 1) : currentLandmarks[k].name = currentLandmarks[i].name
        /\ \A k \in (i + 1) .. Len(currentLandmarks) :
              currentLandmarks[k].name # currentLandmarks[i].name}

\* frames the session feeds
AliasFrames ==
    { <<MkLandmark("nose", One, Zero, UNDEF, Q(9, 10), TRUE)>>,
      <<MkLandmark("nose", Zero, One, Zero, Q(2, 5), FALSE)>>,
      <<MkLandmark("left_knee", One, One, Zero, Q(4, 5), FALSE),
        MkLandmark("nose", Zero, One, Zero, Q(2, 5), FALSE)>> }

\* the session runs applySmoothing(landmarks, config) and keeps the list it
\* gave and the list it got
AliasApplySmoothing(landmarks) ==
    \E g \in {getSmoother(smootherInstance, currentAlpha, call.config.smoothingFactor)} :
      \E r \in {smooth(g.instance, landmarks)} :
        /\ call.config.enableSmoothing
        /\ nCalls < MaxFrames
        /\ smootherInstance' = r.self
        /\ currentAlpha' = g.currentAlpha
        /\ call' = [op |-> "applySmoothing", landmarks |-> landmarks,
                    config |-> call.config, result |-> r.result,
                    shared |-> SharedWithHistory(g.instance, landmarks)]
        /\ prevOp' = Summary(call)
        /\ nCalls' = nCalls + 1
        /\ fed' = [fed EXCEPT ![StreamSession] =
                      Append(@, [op |-> "applySmoothing", landmarks |-> landmarks,
                                 config |-> call.config])]
        /\ got' = [got EXCEPT ![StreamSession] = Append(@, r.result)]

\* the caller assigns to x of the i-th landmark of the list it got
CallerWritesOutput(i, value) ==
    /\ call.op = "applySmoothing"
    /\ i \in DOMAIN call.result
    /\ call' = [call EXCEPT !.op = "write", !.result[i].x = value]
    /\ smootherInstance' =
          IF i \in call.shared
          THEN [smootherInstance EXCEPT
                   !.previousLandmarks[call.result[i].name].x = value]
          ELSE smootherInstance
    /\ UNCHANGED <<currentAlpha, prevOp, nCalls, fed, got>>

\* the caller assigns to x of the i-th landmark of the list it gave
CallerWritesInput(i, value) ==
    /\ call.op = "applySmoothing"
    /\ i \in DOMAIN call.landmarks
    /\ call' = [call EXCEPT !.op = "write", !.landmarks[i].x = value]
    /\ UNCHANGED <<smootherInstance, currentAlpha, prevOp, nCalls, fed, got>>

NextAliasing ==
    \/ \E landmarks \in AliasFrames : AliasApplySmoothing(landmarks)
    \/ KeypointsReset
    \/ \E i \in 1 .. 2, value \in {Num(2)} : CallerWritesOutput(i, value)
    \/ \E i \in 1 .. 2, value \in {Num(2)} : CallerWritesInput(i, value)

SpecAliasing == InitKeypoints /\ [][NextAliasing]_vars

-----------------------------------------------------------------------------
(* Properties of the caller's writes                                       *)

\* C30: a caller that writes into a landmark of the list smooth() returned, or
\* of the list it passed in, does not change the stored history, and every
\* frame comes out as the frames and resets before it determine.
C30_HistoryNotAliased ==
    /\ [][call'.op = "write" => smootherInstance' = smootherInstance]_vars
    /\ [](Outputs = Replay(Trace))

====
